---- MODULE Spec2Model ----
(***************************************************************************)
(* A model of the n8n workflow pipeline of PageLines/n8n-mcp:              *)
(*   - the patch operation engine   (n8n-client.ts, applyOperations)       *)
(*   - the validation rule engine   (validators.ts, validateWorkflow)      *)
(*   - the auto-fix engine          (autofix.ts: autofixWorkflow)          *)
(*   - the expression analyzer      (expressions.ts)                       *)
(*   - the layout formatter         (autofix.ts: formatWorkflow)           *)
(*   - the local version store      (versions.ts)                          *)
(*   - the tool handlers            (handlers, createHandlers)             *)
(*                                                                         *)
(* Strings that the code inspects character by character (names) are       *)
(* sequences of one-character strings.  Parameter values are the sequence  *)
(* of tokens of their JSON text.  A JavaScript object whose key order the  *)
(* code depends on (the connections map) is a sequence of entries.         *)
(***************************************************************************)
EXTENDS Integers, Sequences, FiniteSets, TLC

VARIABLES
    \* ---- transform pipeline (pure functions called on a workflow object)
    arg,            \* the workflow object handed to the last call, as it was at the call
    argAfter,       \* the same object as it is after the call returned
    res,            \* the workflow the last call returned (the next call's input)
    call,           \* the last call: [fn, ops, warnings]
    patchWarnings,  \* applyOperations: the warnings array after the call
    fixes,          \* autofixWorkflow: result.fixes
    unfixable,      \* autofixWorkflow: result.unfixable
    steps,          \* operations, warnings and calls processed so far
    \* ---- version store (versions.ts) and remote store (n8n), tool handlers
    files,          \* the snapshot files of the version store: a set of records
    now,            \* the clock: the time the last saveVersion call read
    config,         \* the version store's config: [enabled, maxVersions]
    remote,         \* the workflow held by the remote store (n8n), or Missing
    history,        \* the calls made to the version store, with their results
    log,            \* the calls the last tool handler made, in order
    handler         \* the last tool handler invoked, its arguments and outcome

vars == <<arg, argAfter, res, call, patchWarnings, fixes, unfixable, steps,
          files, now, config, remote, history, log, handler>>

pipelineVars == <<arg, argAfter, res, call, patchWarnings, fixes, unfixable, steps>>
storeVars == <<files, now, config, remote, history, log, handler>>

-----------------------------------------------------------------------------
(* Sequences                                                               *)

RECURSIVE SeqToSet(_)
SeqToSet(s) == IF s = <<>> THEN {} ELSE {Head(s)} \cup SeqToSet(Tail(s))

\* the concatenation of a sequence of sequences
RECURSIVE Concat(_)
Concat(ss) == IF ss = <<>> THEN <<>> ELSE Head(ss) \o Concat(Tail(ss))

\* Array.prototype.splice(i, 1), 1-based
RemoveAt(s, i) == SubSeq(s, 1, i - 1) \o SubSeq(s, i + 1, Len(s))

\* the least element of a non-empty set of integers
Min(S) == CHOOSE x \in S : \A y \in S : x <= y

-----------------------------------------------------------------------------
(* Characters and strings                                                  *)

UpperLetters == <<"A","B","C","D","E","F","G","H","I","J","K","L","M",
                  "N","O","P","Q","R","S","T","U","V","W","X","Y","Z">>
LowerLetters == <<"a","b","c","d","e","f","g","h","i","j","k","l","m",
                  "n","o","p","q","r","s","t","u","v","w","x","y","z">>
Digits == {"0","1","2","3","4","5","6","7","8","9"}

IsUpper(c) == \E i \in 1..Len(UpperLetters) : UpperLetters[i] = c
IsLower(c) == \E i \in 1..Len(LowerLetters) : LowerLetters[i] = c

\* String.prototype.toLowerCase, one character
LowerChar(c) ==
    IF IsUpper(c)
    THEN LowerLetters[CHOOSE i \in 1..Len(UpperLetters) : UpperLetters[i] = c]
    ELSE c
toLowerCase(s) == [i \in 1..Len(s) |-> LowerChar(s[i])]

\* s.replace(/([A-Z])/g, '_$1')
RECURSIVE PrefixCapitals(_)
PrefixCapitals(s) ==
    IF s = <<>> THEN <<>>
    ELSE (IF IsUpper(Head(s)) THEN <<"_", Head(s)>> ELSE <<Head(s)>>)
         \o PrefixCapitals(Tail(s))

\* s.replace(/C+/g, '_') for a character class C: every maximal run becomes one "_"
RECURSIVE CollapseRuns(_, _, _)
CollapseRuns(class, s, inRun) ==
    IF s = <<>> THEN <<>>
    ELSE IF Head(s) \in class
         THEN (IF inRun THEN <<>> ELSE <<"_">>) \o CollapseRuns(class, Tail(s), TRUE)
         ELSE <<Head(s)>> \o CollapseRuns(class, Tail(s), FALSE)

SpaceChars == {" ", "\t"}

\* s.replace(/^_/, '')
StripLeadingUnderscore(s) == IF s # <<>> /\ Head(s) = "_" THEN Tail(s) ELSE s

toSnakeCase(name) ==
    toLowerCase(
        CollapseRuns({"_"},
            StripLeadingUnderscore(
                CollapseRuns({"-"} \cup SpaceChars, PrefixCapitals(name), FALSE)),
            FALSE))

\* /^[a-z][a-z0-9_]*$/.test(s)
MatchesSnakePattern(s) ==
    /\ s # <<>>
    /\ IsLower(s[1])
    /\ \A i \in 2..Len(s) : IsLower(s[i]) \/ s[i] \in Digits \/ s[i] = "_"

\* name.toLowerCase().replace(/\s+/g, '_')
NormalizedName(name) == CollapseRuns(SpaceChars, toLowerCase(name), FALSE)

-----------------------------------------------------------------------------
(* Data model (types.ts).                                                  *)
(*   workflow    [id, name, active, nodes, connections, settings]          *)
(*   node        [id, name, type, typeVersion, position, parameters]       *)
(*   connections sequence of [key, outputs], in the key order of the       *)
(*               JavaScript object; outputs: sequence of [label, slots];   *)
(*               slots: N8nConnection[][]; a target is [node, type, index] *)
(*   parameters  a function from parameter keys to values; a value is the  *)
(*               sequence of tokens of its JSON text                        *)

\* the connection entry of source key k, or 0 when connections[k] is undefined
KeyIndex(conns, k) ==
    IF \E i \in 1..Len(conns) : conns[i].key = k
    THEN Min({i \in 1..Len(conns) : conns[i].key = k})
    ELSE 0

LabelIndex(outputs, l) ==
    IF \E i \in 1..Len(outputs) : outputs[i].label = l
    THEN Min({i \in 1..Len(outputs) : outputs[i].label = l})
    ELSE 0

\* every slot (connArray) of a connections map, in iteration order
AllSlots(conns) ==
    Concat([i \in 1..Len(conns) |->
        Concat([j \in 1..Len(conns[i].outputs) |-> conns[i].outputs[j].slots])])

\* every target entry of a connections map, in iteration order
AllTargets(conns) == Concat(AllSlots(conns))

\* the connections map with every slot s of every source and label replaced by
\* f[s], for f a function on slots
MapSlots(conns, f) ==
    [i \in 1..Len(conns) |->
        [key |-> conns[i].key,
         outputs |-> [j \in 1..Len(conns[i].outputs) |->
            [label |-> conns[i].outputs[j].label,
             slots |-> [k \in 1..Len(conns[i].outputs[j].slots) |->
                           f[conns[i].outputs[j].slots[k]]]]]]]

NodeNames(w) == {w.nodes[i].name : i \in 1..Len(w.nodes)}

\* nodes.find / findIndex by name, 1-based; 0 when there is none
NodeIndex(nodes, name) ==
    IF \E i \in 1..Len(nodes) : nodes[i].name = name
    THEN Min({i \in 1..Len(nodes) : nodes[i].name = name})
    ELSE 0

UniqueNames(w) ==
    \A i, j \in 1..Len(w.nodes) : w.nodes[i].name = w.nodes[j].name => i = j

-----------------------------------------------------------------------------
(* Patch operation engine: N8nClient.applyOperations (n8n-client.ts)       *)

NotFoundWarning(nodeName) ==
    [kind |-> "not_found", node |-> nodeName, keys |-> {}]
RemoveParametersWarning(nodeName, missingKeys) ==
    [kind |-> "remove_parameters", node |-> nodeName, keys |-> missingKeys]

\* x || d for an optional operation field: an absent field is <<>>, a present
\* one <<v>>; 0 and the empty string are falsy
OrDefault(opt, falsy, d) ==
    IF opt = <<>> THEN d ELSE IF opt[1] = falsy THEN d ELSE opt[1]

\* case 'addNode': id: op.node.id || crypto.randomUUID()
opAddNode(w, op, uuid) ==
    LET node == [id |-> OrDefault(op.node.id, "", uuid),
                 name |-> op.node.name,
                 type |-> op.node.type,
                 typeVersion |-> op.node.typeVersion,
                 position |-> op.node.position,
                 parameters |-> op.node.parameters]
    IN [workflow |-> [w EXCEPT !.nodes = Append(@, node)], warnings |-> <<>>]

\* a variant that splices out the first entry naming nodeName only
SpliceTargetsOf_First(slot, nodeName) ==
    IF \E i \in 1..Len(slot) : slot[i].node = nodeName
    THEN RemoveAt(slot, Min({i \in 1..Len(slot) : slot[i].node = nodeName}))
    ELSE slot

\* the slot with every entry naming nodeName spliced out (filter, indexOf, splice)
SpliceTargetsOf(slot, nodeName) == SelectSeq(slot, LAMBDA c : c.node # nodeName)

\* case 'removeNode'
opRemoveNode(w, op) ==
    LET idx == NodeIndex(w.nodes, op.nodeName)
        deleted == SelectSeq(w.connections, LAMBDA e : e.key # op.nodeName)
        slotsOf == SeqToSet(AllSlots(deleted))
        purged == MapSlots(deleted, [s \in slotsOf |-> SpliceTargetsOf(s, op.nodeName)])
    IN IF idx = 0
       THEN [workflow |-> w, warnings |-> <<NotFoundWarning(op.nodeName)>>]
       ELSE [workflow |-> [w EXCEPT !.nodes = RemoveAt(@, idx),
                                    !.connections = purged],
             warnings |-> <<>>]

\* a variant that merges the supplied parameters into the current ones
AssignNode_MergeParameters(node, properties) ==
    LET pick(f) == IF f \in DOMAIN properties THEN properties[f] ELSE node[f]
        merged == [k \in (DOMAIN node.parameters) \cup (DOMAIN pick("parameters")) |->
                      IF k \in DOMAIN pick("parameters")
                      THEN pick("parameters")[k] ELSE node.parameters[k]]
    IN [id |-> pick("id"), name |-> pick("name"), type |-> pick("type"),
        typeVersion |-> pick("typeVersion"), position |-> pick("position"),
        parameters |-> merged]

\* Object.assign(node, properties)
AssignNode(node, properties) ==
    LET pick(f) == IF f \in DOMAIN properties THEN properties[f] ELSE node[f]
    IN [id |-> pick("id"), name |-> pick("name"), type |-> pick("type"),
        typeVersion |-> pick("typeVersion"), position |-> pick("position"),
        parameters |-> pick("parameters")]

\* currentKeys.filter((k) => !newKeys.includes(k))
MissingKeys(current, replacement) == (DOMAIN current) \ (DOMAIN replacement)

\* case 'updateNode'
opUpdateNode(w, op) ==
    LET idx == NodeIndex(w.nodes, op.nodeName)
        node == w.nodes[idx]
        missingKeys == MissingKeys(node.parameters, op.properties.parameters)
        warns == IF "parameters" \in DOMAIN op.properties /\ missingKeys # {}
                 THEN <<RemoveParametersWarning(op.nodeName, missingKeys)>>
                 ELSE <<>>
    IN IF idx = 0
       THEN [workflow |-> w, warnings |-> <<NotFoundWarning(op.nodeName)>>]
       ELSE [workflow |-> [w EXCEPT !.nodes[idx] = AssignNode(node, op.properties)],
             warnings |-> warns]

\* while (slots.length <= fromOutput) slots.push([])
PadSlots(slots, fromOutput) ==
    IF Len(slots) > fromOutput THEN slots
    ELSE slots \o [i \in 1..(fromOutput + 1 - Len(slots)) |-> <<>>]

\* case 'addConnection' (fromOutput is 0-based, as in the code)
opAddConnection(w, op) ==
    LET outputType == OrDefault(op.outputType, "", "main")
        fromOutput == OrDefault(op.fromOutput, 0, 0)
        toInput == OrDefault(op.toInput, 0, 0)
        inputType == OrDefault(op.inputType, "", "main")
        c1 == IF KeyIndex(w.connections, op.from) = 0
              THEN Append(w.connections, [key |-> op.from, outputs |-> <<>>])
              ELSE w.connections
        ki == KeyIndex(c1, op.from)
        o1 == IF LabelIndex(c1[ki].outputs, outputType) = 0
              THEN Append(c1[ki].outputs, [label |-> outputType, slots |-> <<>>])
              ELSE c1[ki].outputs
        li == LabelIndex(o1, outputType)
        padded == PadSlots(o1[li].slots, fromOutput)
        pushed == [padded EXCEPT ![fromOutput + 1] =
                      Append(@, [node |-> op.to, type |-> inputType, index |-> toInput])]
        o2 == [o1 EXCEPT ![li].slots = pushed]
    IN [workflow |-> [w EXCEPT !.connections = [c1 EXCEPT ![ki].outputs = o2]],
        warnings |-> <<>>]

\* result.connections[op.from]?.[outputType]?.[fromOutput]: <<ki, li, slot>>, or
\* <<>> when the chain is undefined
FindSlot(conns, from, outputType, fromOutput) ==
    LET ki == KeyIndex(conns, from)
        li == IF ki = 0 THEN 0 ELSE LabelIndex(conns[ki].outputs, outputType)
    IN IF ki = 0 \/ li = 0 THEN <<>>
       ELSE IF fromOutput + 1 > Len(conns[ki].outputs[li].slots) THEN <<>>
       ELSE <<ki, li, fromOutput + 1>>

\* conns.findIndex((c) => c.node === op.to)
FirstTargetOf(slot, to) ==
    IF \E i \in 1..Len(slot) : slot[i].node = to
    THEN Min({i \in 1..Len(slot) : slot[i].node = to})
    ELSE 0

\* case 'removeConnection'
opRemoveConnection(w, op) ==
    LET outputType == OrDefault(op.outputType, "", "main")
        fromOutput == OrDefault(op.fromOutput, 0, 0)
        at == FindSlot(w.connections, op.from, outputType, fromOutput)
        conns == w.connections[at[1]].outputs[at[2]].slots[at[3]]
        idx == FirstTargetOf(conns, op.to)
    IN IF at = <<>> \/ idx = 0
       THEN [workflow |-> w, warnings |-> <<>>]
       ELSE [workflow |->
                [w EXCEPT !.connections[at[1]].outputs[at[2]].slots[at[3]] =
                              RemoveAt(@, idx)],
             warnings |-> <<>>]

\* { ...result.settings, ...op.settings }
MergeSettings(settings, update) ==
    [k \in (DOMAIN settings) \cup (DOMAIN update) |->
        IF k \in DOMAIN update THEN update[k] ELSE settings[k]]

\* one iteration of the loop over operations: the switch on op.type
applyOperation(w, op, uuid) ==
    CASE op.type = "addNode" -> opAddNode(w, op, uuid)
      [] op.type = "removeNode" -> opRemoveNode(w, op)
      [] op.type = "updateNode" -> opUpdateNode(w, op)
      [] op.type = "addConnection" -> opAddConnection(w, op)
      [] op.type = "removeConnection" -> opRemoveConnection(w, op)
      [] op.type = "updateSettings" ->
            [workflow |-> [w EXCEPT !.settings = MergeSettings(@, op.settings)],
             warnings |-> <<>>]
      [] op.type = "updateName" ->
            [workflow |-> [w EXCEPT !.name = op.name], warnings |-> <<>>]
      [] op.type = "activate" ->
            [workflow |-> [w EXCEPT !.active = TRUE], warnings |-> <<>>]
      [] op.type = "deactivate" ->
            [workflow |-> [w EXCEPT !.active = FALSE], warnings |-> <<>>]
      [] OTHER -> [workflow |-> w, warnings |-> <<>>]

\* a variant that runs the operations from the last one to the first
RECURSIVE runOperations_Reversed(_, _, _, _)
runOperations_Reversed(w, operations, warnings, uuids) ==
    IF operations = <<>> THEN [workflow |-> w, warnings |-> warnings]
    ELSE LET n == Len(operations)
             step == applyOperation(w, operations[n], uuids[n])
         IN runOperations_Reversed(step.workflow, SubSeq(operations, 1, n - 1),
                                   warnings \o step.warnings, uuids)

\* for (const op of operations) ...: on the working object, in list order
\* uuids: the values crypto.randomUUID() returns, one per operation
RECURSIVE runOperations(_, _, _, _)
runOperations(w, operations, warnings, uuids) ==
    IF operations = <<>> THEN [workflow |-> w, warnings |-> warnings]
    ELSE LET step == applyOperation(w, Head(operations), Head(uuids))
         IN runOperations(step.workflow, Tail(operations),
                          warnings \o step.warnings, Tail(uuids))

\* The objects of a call: the caller's object ("arg") and the one the callee
\* allocates ("copy").  JSON.parse(JSON.stringify(workflow)) fills "copy" with
\* the value of "arg" and the callee works on "copy".
NoObject == [id |-> "", name |-> <<>>, active |-> FALSE, nodes |-> <<>>,
             connections |-> <<>>, settings |-> <<>>]

deepClone_Alias(heap) == [heap |-> heap, ref |-> "arg"]
deepClone(heap) == [heap |-> [heap EXCEPT !.copy = heap.arg], ref |-> "copy"]

\* applyOperations(workflow, operations, warnings): the returned workflow, the
\* warnings array, and the caller's object after the call
applyOperations(workflow, operations, uuids) ==
    LET Return(c, run) ==
            LET heap == [c.heap EXCEPT ![c.ref] = run.workflow]
            IN [workflow |-> heap[c.ref], warnings |-> run.warnings,
                input |-> heap.arg]
        Work(c) == Return(c, runOperations(c.heap[c.ref], operations, <<>>, uuids))
    IN Work(deepClone([arg |-> workflow, copy |-> NoObject]))

-----------------------------------------------------------------------------
(* Parameter values: the token sequence of the JSON text of the value.     *)
(* A string value starts and ends with the quote token.                    *)

Quote == "\""
StrVal(tokens) == <<Quote>> \o tokens \o <<Quote>>
TrueVal == <<"true">>
FalseVal == <<"false">>
NullVal == <<"null">>
IsString(v) == Len(v) >= 2 /\ v[1] = Quote /\ v[Len(v)] = Quote
\* the characters of a string value
StrBody(v) == SubSeq(v, 2, Len(v) - 1)
\* JavaScript truthiness of a parameter value
Truthy(v) == v \notin {NullVal, FalseVal, <<"0">>, StrVal(<<>>)}

\* the text $('name') and the implicit accessor $json.
RefOpen == "$('"
RefClose == "')"
JsonAccessor == "$json."
RefTo(name) == <<RefOpen>> \o name \o <<RefClose>>

\* the fragments, among those the rules test with String.includes, that each
\* node type of the model contains
TypeFragments(type) ==
    CASE type = "n8n-nodes-base.webhook" -> {"webhook"}
      [] type = "n8n-nodes-base.set" -> {}
      [] type = "n8n-nodes-base.code" -> {"n8n-nodes-base.code"}
      [] type = "@n8n/n8n-nodes-langchain.agent" -> {"langchain.agent"}
      [] type = "@n8n/n8n-nodes-langchain.memoryBufferWindow" -> {"memorybufferwindow"}
      [] OTHER -> {}

-----------------------------------------------------------------------------
(* Validation rule engine: validateWorkflow (validators.ts)                *)

Warning(rule, hasNode, node, severity) ==
    [rule |-> rule, hasNode |-> hasNode, node |-> node, severity |-> severity]

\* validateSnakeCase: the warning carries no node property
validateSnakeCase(name) ==
    IF ~MatchesSnakePattern(NormalizedName(name)) /\ ~MatchesSnakePattern(name)
    THEN <<Warning("snake_case", FALSE, <<>>, "warning")>>
    ELSE <<>>

ContainsToken(v, t) == \E i \in 1..Len(v) : v[i] = t

\* checkForJsonUsage: /\$json\./ on JSON.stringify(node.parameters)
checkForJsonUsage(node) ==
    IF \E k \in DOMAIN node.parameters : ContainsToken(node.parameters[k], JsonAccessor)
    THEN <<Warning("explicit_reference", TRUE, node.name, "warning")>>
    ELSE <<>>

\* a quoted 17-19 digit number, UUID or 24-hex id, as one token of the model
IdLiterals == {"123456789012345678"}
checkForHardcodedIds(node) ==
    IF \E k \in DOMAIN node.parameters :
         LET v == node.parameters[k]
         IN \E i \in 1..(Len(v) - 2) :
               v[i] = Quote /\ v[i + 1] \in IdLiterals /\ v[i + 2] = Quote
    THEN <<Warning("no_hardcoded_ids", TRUE, node.name, "info")>>
    ELSE <<>>

\* keys whose lower-cased text ends with api_key, secret or password
SecretKeys == {"apiKey", "password"}
checkForHardcodedSecrets(node) ==
    IF \E k \in DOMAIN node.parameters :
         /\ k \in SecretKeys
         /\ IsString(node.parameters[k])
         /\ StrBody(node.parameters[k]) # <<>>
    THEN <<Warning("no_hardcoded_secrets", TRUE, node.name, "info")>>
    ELSE <<>>

checkForCodeNodeUsage(node) ==
    IF "n8n-nodes-base.code" \in TypeFragments(node.type)
    THEN <<Warning("code_node_usage", TRUE, node.name, "info")>>
    ELSE <<>>

ParamIs(params, k, v) == k \in DOMAIN params /\ params[k] = v
ParamTruthy(params, k) == k \in DOMAIN params /\ Truthy(params[k])

checkForAIStructuredOutput(node) ==
    LET params == node.parameters
        isAINode == "langchain.agent" \in TypeFragments(node.type)
        hasPromptType == ParamIs(params, "promptType", StrVal(<<"define">>))
        hasOutputParser == ParamIs(params, "hasOutputParser", TrueVal)
    IN IF /\ isAINode
          /\ (ParamTruthy(params, "outputParser") \/ ParamTruthy(params, "schemaType"))
          /\ (~hasPromptType \/ ~hasOutputParser)
       THEN <<Warning("ai_structured_output", TRUE, node.name, "warning")>>
       ELSE <<>>

checkForInMemoryStorage(node) ==
    IF "memorybufferwindow" \in TypeFragments(node.type)
    THEN <<Warning("in_memory_storage", TRUE, node.name, "warning")>>
    ELSE <<>>

validateNode(node) ==
    validateSnakeCase(node.name) \o checkForJsonUsage(node)
    \o checkForHardcodedIds(node) \o checkForHardcodedSecrets(node)
    \o checkForCodeNodeUsage(node) \o checkForAIStructuredOutput(node)
    \o checkForInMemoryStorage(node)

\* the names that appear as a source key or as a target
connectedNodes(w) ==
    {w.connections[i].key : i \in 1..Len(w.connections)}
    \cup {t.node : t \in SeqToSet(AllTargets(w.connections))}

\* triggerTypes.some((t) => node.type.includes(t.split('.')[1]))
isTrigger(node) == "webhook" \in TypeFragments(node.type)

validateConnections(w) ==
    Concat([i \in 1..Len(w.nodes) |->
        IF ~isTrigger(w.nodes[i]) /\ w.nodes[i].name \notin connectedNodes(w)
        THEN <<Warning("orphan_node", TRUE, w.nodes[i].name, "warning")>>
        ELSE <<>>])

\* validateWorkflow(workflow).warnings
validateWorkflow(w) ==
    validateSnakeCase(w.name)
    \o Concat([i \in 1..Len(w.nodes) |-> validateNode(w.nodes[i])])
    \o validateConnections(w)

-----------------------------------------------------------------------------
(* Auto-fix transform engine: autofixWorkflow (autofix.ts)                 *)

FixAction(type, target, before, after) ==
    [type |-> type, target |-> target, before |-> before, after |-> after]
NoFix == [type |-> "none", target |-> <<>>, before |-> <<>>, after |-> <<>>]

\* !warning.node: the property is absent, or the empty string
NoWarningNode(warning) == ~warning.hasNode \/ warning.node = <<>>

\* workflow.connections[newName] = workflow.connections[oldName];
\* delete workflow.connections[oldName]
RenameKey(conns, oldName, newName) ==
    LET oi == KeyIndex(conns, oldName)
        ni == KeyIndex(conns, newName)
        assigned == IF ni = 0
                    THEN Append(conns, [key |-> newName, outputs |-> conns[oi].outputs])
                    ELSE [conns EXCEPT ![ni].outputs = conns[oi].outputs]
    IN IF oi = 0 THEN conns
       ELSE SelectSeq(assigned, LAMBDA e : e.key # oldName)

\* if (conn.node === oldName) conn.node = newName, for every entry of a slot
RetargetSlot(slot, oldName, newName) ==
    [i \in 1..Len(slot) |->
        IF slot[i].node = oldName THEN [slot[i] EXCEPT !.node = newName] ELSE slot[i]]

\* fixSnakeCase: [workflow, fix], fix = NoFix when the function returns null
fixSnakeCase(w, warning) ==
    LET idx == NodeIndex(w.nodes, warning.node)
        oldName == w.nodes[idx].name
        newName == toSnakeCase(oldName)
        renamed == RenameKey(w.connections, oldName, newName)
        slotsOf == SeqToSet(AllSlots(renamed))
        retargeted == MapSlots(renamed,
                         [sl \in slotsOf |-> RetargetSlot(sl, oldName, newName)])
    IN IF NoWarningNode(warning)
       THEN IF w.name = toSnakeCase(w.name)
            THEN [workflow |-> w, fix |-> NoFix]
            ELSE [workflow |-> [w EXCEPT !.name = toSnakeCase(w.name)],
                  fix |-> FixAction("rename", <<"workflow">>, w.name, toSnakeCase(w.name))]
       ELSE IF idx = 0 THEN [workflow |-> w, fix |-> NoFix]
       ELSE IF oldName = newName THEN [workflow |-> w, fix |-> NoFix]
       ELSE [workflow |-> [w EXCEPT !.nodes[idx].name = newName,
                                    !.connections = retargeted],
             fix |-> FixAction("rename", <<"node:">> \o oldName, oldName, newName)]

\* findPreviousNode: the first source key, in iteration order, with a target
\* entry naming nodeName; <<>> stands for null
findPreviousNode(w, nodeName) ==
    LET hits == {i \in 1..Len(w.connections) :
                    \E t \in SeqToSet(AllTargets(<<w.connections[i]>>)) : t.node = nodeName}
    IN IF hits = {} THEN <<>> ELSE <<w.connections[Min(hits)].key>>

\* params.replace(/\$json\./g, `$('${previousNode}').item.json.`), on one value;
\* the second replace finds nothing: no $json. is left
RECURSIVE ReplaceJsonAccessor(_, _)
ReplaceJsonAccessor(v, previousNode) ==
    IF v = <<>> THEN <<>>
    ELSE (IF Head(v) = JsonAccessor
          THEN RefTo(previousNode) \o <<".item.json.">>
          ELSE <<Head(v)>>)
         \o ReplaceJsonAccessor(Tail(v), previousNode)

fixExplicitReference(w, warning) ==
    LET idx == NodeIndex(w.nodes, warning.node)
        node == w.nodes[idx]
        prev == findPreviousNode(w, node.name)
        previousNode == prev[1]
        fixedParams == [k \in DOMAIN node.parameters |->
                           ReplaceJsonAccessor(node.parameters[k], previousNode)]
    IN IF NoWarningNode(warning) THEN [workflow |-> w, fix |-> NoFix]
       ELSE IF idx = 0 THEN [workflow |-> w, fix |-> NoFix]
       \* if (!previousNode): null, or the empty string
       ELSE IF prev = <<>> \/ prev = << <<>> >> THEN [workflow |-> w, fix |-> NoFix]
       ELSE IF fixedParams = node.parameters THEN [workflow |-> w, fix |-> NoFix]
       ELSE [workflow |-> [w EXCEPT !.nodes[idx].parameters = fixedParams],
             fix |-> FixAction("expression_fix", <<"node:">> \o node.name,
                               <<JsonAccessor>>,
                               RefTo(previousNode) \o <<".item.json.">>)]

\* variant: the assignment replaces the parameters object
SetParam_Replace(params, k, v) == [x \in {k} |-> v]

\* params[k] = v
SetParam(params, k, v) ==
    [x \in (DOMAIN params) \cup {k} |-> IF x = k THEN v ELSE params[x]]

fixAIStructuredOutput(w, warning) ==
    LET idx == NodeIndex(w.nodes, warning.node)
        params == w.nodes[idx].parameters
        setPrompt == ~ParamIs(params, "promptType", StrVal(<<"define">>))
        p1 == IF setPrompt THEN SetParam(params, "promptType", StrVal(<<"define">>))
              ELSE params
        setParser == ~ParamIs(p1, "hasOutputParser", TrueVal)
        p2 == IF setParser THEN SetParam(p1, "hasOutputParser", TrueVal) ELSE p1
    IN IF NoWarningNode(warning) THEN [workflow |-> w, fix |-> NoFix]
       ELSE IF idx = 0 THEN [workflow |-> w, fix |-> NoFix]
       ELSE IF ~setPrompt /\ ~setParser
            \* the parameters object was not written to
            THEN [workflow |-> w, fix |-> NoFix]
       ELSE [workflow |-> [w EXCEPT !.nodes[idx].parameters = p2],
             fix |-> FixAction("parameter_fix", <<"node:">> \o w.nodes[idx].name,
                               <<>>, <<>>)]

attemptFix(w, warning) ==
    CASE warning.rule = "snake_case" -> fixSnakeCase(w, warning)
      [] warning.rule = "explicit_reference" -> fixExplicitReference(w, warning)
      [] warning.rule = "ai_structured_output" -> fixAIStructuredOutput(w, warning)
      [] OTHER -> [workflow |-> w, fix |-> NoFix]

\* variant: a warning without a fix is dropped
RECURSIVE runFixes_DropUnfixable(_, _, _, _)
runFixes_DropUnfixable(w, warnings, fixesSoFar, unfixableSoFar) ==
    IF warnings = <<>>
    THEN [workflow |-> w, fixes |-> fixesSoFar, unfixable |-> unfixableSoFar]
    ELSE LET r == attemptFix(w, Head(warnings))
         IN IF r.fix # NoFix
            THEN runFixes_DropUnfixable(r.workflow, Tail(warnings),
                          Append(fixesSoFar, r.fix), unfixableSoFar)
            ELSE runFixes_DropUnfixable(r.workflow, Tail(warnings),
                          fixesSoFar, unfixableSoFar)
\* for (const warning of warnings) ...: on the working object, in list order
RECURSIVE runFixes(_, _, _, _)
runFixes(w, warnings, fixesSoFar, unfixableSoFar) ==
    IF warnings = <<>>
    THEN [workflow |-> w, fixes |-> fixesSoFar, unfixable |-> unfixableSoFar]
    ELSE LET r == attemptFix(w, Head(warnings))
         IN IF r.fix # NoFix
            THEN runFixes(r.workflow, Tail(warnings),
                          Append(fixesSoFar, r.fix), unfixableSoFar)
            ELSE runFixes(r.workflow, Tail(warnings),
                          fixesSoFar, Append(unfixableSoFar, Head(warnings)))

\* autofixWorkflow(workflow, warnings): the result and the caller's object after
\* the call
autofixWorkflow(workflow, warnings) ==
    LET Return(c, run) ==
            LET heap == [c.heap EXCEPT ![c.ref] = run.workflow]
            IN [workflow |-> heap[c.ref], fixes |-> run.fixes,
                unfixable |-> run.unfixable, input |-> heap.arg]
        Work(c) == Return(c, runFixes(c.heap[c.ref], warnings, <<>>, <<>>))
    IN Work(deepClone([arg |-> workflow, copy |-> NoObject]))

-----------------------------------------------------------------------------
(* Graph layout formatter: formatWorkflow (autofix.ts)                     *)

GRID_SIZE == 16
NODE_WIDTH == GRID_SIZE * 6
NODE_HEIGHT == GRID_SIZE * 6
HORIZONTAL_SPACING == GRID_SIZE * 8
VERTICAL_SPACING == GRID_SIZE * 6
START_X == GRID_SIZE * 11
START_Y == GRID_SIZE * 15

\* the edges given to the layout: one per target entry whose two ends are nodes
LayoutEdges(w) ==
    UNION {{<<w.connections[i].key, t.node>> :
               t \in {u \in SeqToSet(AllTargets(<<w.connections[i]>>)) :
                          u.node \in NodeNames(w)}} :
           i \in {j \in 1..Len(w.connections) :
                      w.connections[j].key \in NodeNames(w)}}

\* The layered layout of the dagre library, which is not part of the
\* repository, as a left-to-right layering: a vertex's rank is the length of
\* the longest chain of edges that ends in it (chains of at most `hops` edges,
\* self-loops left out).
RECURSIVE LayoutRank(_, _, _)
LayoutRank(edges, n, hops) ==
    LET preds == {e[1] : e \in {x \in edges : x[2] = n /\ x[1] # n}}
    IN IF hops = 0 \/ preds = {} THEN 0
       ELSE LET ranks == {LayoutRank(edges, m, hops - 1) : m \in preds}
            IN 1 + (CHOOSE r \in ranks : \A q \in ranks : q <= r)

\* top-left position of node i: rank to x, place within the rank to y
LayoutPosition(w, i) ==
    LET edges == LayoutEdges(w)
        rank(j) == LayoutRank(edges, w.nodes[j].name, Len(w.nodes))
        above == {j \in 1..(i - 1) : rank(j) = rank(i)
                                     /\ w.nodes[j].name # w.nodes[i].name}
    IN <<START_X + rank(i) * (NODE_WIDTH + HORIZONTAL_SPACING),
         START_Y + Cardinality(above) * (NODE_HEIGHT + VERTICAL_SPACING)>>

\* the comparator of workflow.nodes.sort: by x, then y
PositionBefore(a, b) ==
    IF a.position[1] # b.position[1] THEN a.position[1] < b.position[1]
    ELSE a.position[2] < b.position[2]

\* Array.prototype.sort, which is stable: insertion of x behind every element
\* that is not after it
RECURSIVE InsertSorted(_, _)
InsertSorted(sorted, x) ==
    IF sorted = <<>> THEN <<x>>
    ELSE IF PositionBefore(x, Head(sorted)) THEN <<x>> \o sorted
    ELSE <<Head(sorted)>> \o InsertSorted(Tail(sorted), x)

RECURSIVE SortNodes(_, _)
SortNodes(nodes, sorted) ==
    IF nodes = <<>> THEN sorted
    ELSE SortNodes(Tail(nodes), InsertSorted(sorted, Head(nodes)))

calculateNodePositions(w) ==
    IF w.nodes = <<>> THEN w
    ELSE LET placed == [i \in 1..Len(w.nodes) |->
                           [w.nodes[i] EXCEPT !.position = LayoutPosition(w, i)]]
         IN [w EXCEPT !.nodes = SortNodes(placed, <<>>)]

\* cleanObject: the keys whose value is null are dropped
cleanObject(params) ==
    [k \in {x \in DOMAIN params : params[x] # NullVal} |-> params[k]]

\* formatWorkflow(workflow): the result and the caller's object after the call
formatWorkflow(workflow) ==
    LET Clean(placed) ==
            [placed EXCEPT !.nodes =
                [i \in 1..Len(placed.nodes) |->
                    [placed.nodes[i] EXCEPT !.parameters = cleanObject(@)]]]
        Return(c, cleaned) ==
            LET heap == [c.heap EXCEPT ![c.ref] = cleaned]
            IN [workflow |-> heap[c.ref], input |-> heap.arg]
        Work(c) == Return(c, Clean(calculateNodePositions(c.heap[c.ref])))
    IN Work(deepClone([arg |-> workflow, copy |-> NoObject]))

-----------------------------------------------------------------------------
(* Expression analyzer: validateExpressions, checkCircularReferences       *)
(* (expressions.ts)                                                        *)

\* value.match(/\{\{.*?\}\}/g): the spans from a {{ to the next }}
RECURSIVE TemplateMatches(_)
TemplateMatches(b) ==
    LET opens == {i \in 1..Len(b) : b[i] = "{{"}
        i == Min(opens)
        closes == {j \in (i + 1)..Len(b) : b[j] = "}}"}
        j == Min(closes)
    IN IF opens = {} THEN <<>>
       ELSE IF closes = {} THEN <<>>
       ELSE <<SubSeq(b, i, j)>> \o TemplateMatches(SubSeq(b, j + 1, Len(b)))

\* extractExpressions, for one string value
ExpressionsOfValue(v) ==
    IF ~IsString(v) THEN <<>>
    ELSE TemplateMatches(StrBody(v))
         \o (IF Len(StrBody(v)) >= 2 /\ StrBody(v)[1] = "=" /\ StrBody(v)[2] = "{{"
             THEN <<StrBody(v)>> ELSE <<>>)

\* the parameter keys in the order of Object.entries (the model fixes one)
KeyOrder == <<"value", "url", "outputParser", "schemaType", "promptType",
              "hasOutputParser", "apiKey", "password">>

extractExpressions(params) ==
    Concat([i \in 1..Len(KeyOrder) |->
        IF KeyOrder[i] \in DOMAIN params
        THEN ExpressionsOfValue(params[KeyOrder[i]]) ELSE <<>>])

\* inner.matchAll(/\$\(['"]([^'"]+)['"]\)/g): the names referenced, in order
RECURSIVE ReferencedNames(_)
ReferencedNames(e) ==
    LET opens == {i \in 1..Len(e) : e[i] = RefOpen}
        i == Min(opens)
        closes == {j \in (i + 1)..Len(e) : e[j] = RefClose}
        j == Min(closes)
        name == SubSeq(e, i + 1, j - 1)
        quoteFree == \A k \in 1..Len(name) : name[k] \notin {RefOpen, RefClose, Quote}
    IN IF opens = {} THEN <<>>
       ELSE IF closes = {} THEN <<>>
       ELSE (IF name # <<>> /\ quoteFree THEN <<name>> ELSE <<>>)
            \o ReferencedNames(SubSeq(e, j + 1, Len(e)))

\* validateExpression, lines "Check for node references that don't exist"
MissingNodeIssues(expression, nodeNames) ==
    SelectSeq(ReferencedNames(expression), LAMBDA n : n \notin nodeNames)

\* validateExpressions(workflow), restricted to the issues "References
\* non-existent node": a sequence of [node, ref]
validateExpressions(w) ==
    Concat([i \in 1..Len(w.nodes) |->
        LET exprs == extractExpressions(w.nodes[i].parameters)
            refs == Concat([x \in 1..Len(exprs) |->
                               MissingNodeIssues(exprs[x], NodeNames(w))])
        IN [y \in 1..Len(refs) |-> [node |-> w.nodes[i].name, ref |-> refs[y]]]])


\* refsForNode: the names referenced from the expressions of one node, each
\* once (if (!refsForNode.includes(refName)) refsForNode.push(refName))
RECURSIVE PushNew(_, _)
PushNew(seen, names) ==
    IF names = <<>> THEN seen
    ELSE PushNew(IF Head(names) \in SeqToSet(seen) THEN seen
                 ELSE Append(seen, Head(names)),
                 Tail(names))

refsForNode(node) ==
    LET exprs == extractExpressions(node.parameters)
    IN PushNew(<<>>, Concat([x \in 1..Len(exprs) |-> ReferencedNames(exprs[x])]))

\* Map.prototype.set: a new key goes to the end, a present key keeps its place
MapSet(map, key, value) ==
    IF \E i \in 1..Len(map) : map[i].key = key
    THEN [i \in 1..Len(map) |->
             IF map[i].key = key THEN [key |-> key, refs |-> value] ELSE map[i]]
    ELSE Append(map, [key |-> key, refs |-> value])

\* references.get(key) || []
MapGet(map, key) ==
    IF \E i \in 1..Len(map) : map[i].key = key
    THEN map[CHOOSE i \in 1..Len(map) : map[i].key = key].refs
    ELSE <<>>

\* getReferencedNodes(workflow): the map as the sequence of its entries, in
\* the order of references.keys()
RECURSIVE SetReferences(_, _)
SetReferences(map, nodes) ==
    IF nodes = <<>> THEN map
    ELSE SetReferences(IF refsForNode(Head(nodes)) # <<>>
                       THEN MapSet(map, Head(nodes).name, refsForNode(Head(nodes)))
                       ELSE map,
                       Tail(nodes))

getReferencedNodes(w) == SetReferences(<<>>, w.nodes)

\* variant: only the first reference of a node is followed
RECURSIVE findCycle_FirstRef(_, _, _)
findCycle_FirstRef(references, start, path) ==
    IF start \in SeqToSet(path)
    THEN << SubSeq(path, Min({i \in 1..Len(path) : path[i] = start}), Len(path))
            \o <<start>> >>
    ELSE IF MapGet(references, start) = <<>> THEN <<>>
    ELSE findCycle_FirstRef(references, MapGet(references, start)[1],
                            Append(path, start))

\* findCycle(start, path): the cycles it pushes, in the order of the pushes
RECURSIVE findCycle(_, _, _)
findCycle(references, start, path) ==
    IF start \in SeqToSet(path)
    THEN << SubSeq(path, Min({i \in 1..Len(path) : path[i] = start}), Len(path))
            \o <<start>> >>
    ELSE Concat([i \in 1..Len(MapGet(references, start)) |->
                    findCycle(references, MapGet(references, start)[i],
                              Append(path, start))])

\* the calls of findCycle are cut at this depth, deeper than a path over the
\* names of the model can be without a repeat: a traversal that does not stop
\* shows as a path of this length
CutDepth == 6

\* variant: a repeat is seen only when it is the node the traversal began at
RECURSIVE findCyclePaths_RootOnly(_, _, _)
findCyclePaths_RootOnly(references, start, path) ==
    IF path # <<>> /\ start = path[1]
    THEN {[path |-> path, stop |-> "repeat"]}
    ELSE IF Len(path) >= CutDepth
    THEN {[path |-> path, stop |-> "cut"]}
    ELSE IF MapGet(references, start) = <<>>
    THEN {[path |-> Append(path, start), stop |-> "end"]}
    ELSE UNION {findCyclePaths_RootOnly(references, MapGet(references, start)[i],
                                        Append(path, start)) :
                   i \in 1..Len(MapGet(references, start))}

\* findCycle(start, path), as the paths at which its calls return without a
\* further call: at a repeat (path.includes(start)), or at a node without
\* references, whose path is [...path, start]
RECURSIVE findCyclePaths(_, _, _)
findCyclePaths(references, start, path) ==
    IF start \in SeqToSet(path)
    THEN {[path |-> path, stop |-> "repeat"]}
    ELSE IF Len(path) >= CutDepth
    THEN {[path |-> path, stop |-> "cut"]}
    ELSE IF MapGet(references, start) = <<>>
    THEN {[path |-> Append(path, start), stop |-> "end"]}
    ELSE UNION {findCyclePaths(references, MapGet(references, start)[i],
                               Append(path, start)) :
                   i \in 1..Len(MapGet(references, start))}

\* [...cycle].sort().join(','): two keys are equal exactly when every name
\* occurs as often in one cycle as in the other (no name holds a comma)
CycleKey(cycle) ==
    [n \in SeqToSet(cycle) |-> Cardinality({i \in 1..Len(cycle) : cycle[i] = n})]

\* cycles.filter((cycle, index) => cycles.findIndex(same key) === index)
uniqueCycles(cycles) ==
    LET keep == {i \in 1..Len(cycles) :
                    \A j \in 1..(i - 1) : CycleKey(cycles[j]) # CycleKey(cycles[i])}
        Pick(i) == IF i \in keep THEN <<cycles[i]>> ELSE <<>>
    IN Concat([i \in 1..Len(cycles) |-> Pick(i)])

checkCircularReferences(w) ==
    LET Found(references) ==
            uniqueCycles(Concat([i \in 1..Len(references) |->
                                    findCycle(references, references[i].key, <<>>)]))
    IN Found(getReferencedNodes(w))
-----------------------------------------------------------------------------
(* JSON text and the content hash: hashWorkflow (versions.ts)              *)

\* the printable characters, in the order of their codes 32..126 (code 96, the
\* grave accent, is written <grave>)
Ascii ==
    <<
      " ", "!", "\"", "#", "$", "%", "&", "'", "(", ")", "*", "+", ",", "-", ".", "/",
      "0", "1", "2", "3", "4", "5", "6", "7", "8", "9", ":", ";", "<", "=", ">", "?",
      "@", "A", "B", "C", "D", "E", "F", "G", "H", "I", "J", "K", "L", "M", "N", "O",
      "P", "Q", "R", "S", "T", "U", "V", "W", "X", "Y", "Z", "[", "\\", "]", "^", "_",
      "<grave>", "a", "b", "c", "d", "e", "f", "g", "h", "i", "j", "k", "l", "m", "n", "o",
      "p", "q", "r", "s", "t", "u", "v", "w", "x", "y", "z", "{", "|", "}", "~" >>

\* String.prototype.charCodeAt for one character
CharCode(c) == 31 + (CHOOSE i \in 1..Len(Ascii) : Ascii[i] = c)

\* the characters of the tokens of the model that are longer than one character
Spell(t) ==
    CASE t = "id" -> <<"i","d">>
      [] t = "name" -> <<"n","a","m","e">>
      [] t = "type" -> <<"t","y","p","e">>
      [] t = "typeVersion" -> <<"t","y","p","e","V","e","r","s","i","o","n">>
      [] t = "position" -> <<"p","o","s","i","t","i","o","n">>
      [] t = "parameters" -> <<"p","a","r","a","m","e","t","e","r","s">>
      [] t = "nodes" -> <<"n","o","d","e","s">>
      [] t = "connections" -> <<"c","o","n","n","e","c","t","i","o","n","s">>
      [] t = "settings" -> <<"s","e","t","t","i","n","g","s">>
      [] t = "node" -> <<"n","o","d","e">>
      [] t = "index" -> <<"i","n","d","e","x">>
      [] t = "executionOrder" -> <<"e","x","e","c","u","t","i","o","n","O","r","d","e","r">>
      [] t = "value" -> <<"v","a","l","u","e">>
      [] t = "url" -> <<"u","r","l">>
      [] t = "outputParser" -> <<"o","u","t","p","u","t","P","a","r","s","e","r">>
      [] t = "schemaType" -> <<"s","c","h","e","m","a","T","y","p","e">>
      [] t = "promptType" -> <<"p","r","o","m","p","t","T","y","p","e">>
      [] t = "hasOutputParser" -> <<"h","a","s","O","u","t","p","u","t","P","a","r","s","e","r">>
      [] t = "apiKey" -> <<"a","p","i","K","e","y">>
      [] t = "password" -> <<"p","a","s","s","w","o","r","d">>
      [] t = "n8n-nodes-base.webhook" ->
            <<"n","8","n","-","n","o","d","e","s","-","b","a","s","e",".","w","e","b","h","o","o","k">>
      [] t = "n8n-nodes-base.set" ->
            <<"n","8","n","-","n","o","d","e","s","-","b","a","s","e",".","s","e","t">>
      [] t = "n8n-nodes-base.code" ->
            <<"n","8","n","-","n","o","d","e","s","-","b","a","s","e",".","c","o","d","e">>
      [] t = "@n8n/n8n-nodes-langchain.agent" ->
            <<"@","n","8","n","/","n","8","n","-","n","o","d","e","s","-","l","a","n","g","c","h","a","i","n",".","a","g","e","n","t">>
      [] t = "@n8n/n8n-nodes-langchain.memoryBufferWindow" ->
            <<"@","n","8","n","/","n","8","n","-","n","o","d","e","s","-","l","a","n","g","c","h","a","i","n",".","m","e","m","o","r","y","B","u","f","f","e","r","W","i","n","d","o","w">>
      [] t = "not.a.real.node" -> <<"n","o","t",".","a",".","r","e","a","l",".","n","o","d","e">>
      [] t = "main" -> <<"m","a","i","n">>
      [] t = "ai_tool" -> <<"a","i","_","t","o","o","l">>
      [] t = "true" -> <<"t","r","u","e">>
      [] t = "false" -> <<"f","a","l","s","e">>
      [] t = "null" -> <<"n","u","l","l">>
      [] t = "define" -> <<"d","e","f","i","n","e">>
      [] t = "v0" -> <<"v","0">>
      [] t = "v1" -> <<"v","1">>
      [] t = "n1" -> <<"n","1">>
      [] t = "n2" -> <<"n","2">>
      [] t = "n3" -> <<"n","3">>
      [] t = "uuid-1" -> <<"u","u","i","d","-","1">>
      [] t = "uuid-2" -> <<"u","u","i","d","-","2">>
      [] t = "uuid-3" -> <<"u","u","i","d","-","3">>
      [] t = "uuid-4" -> <<"u","u","i","d","-","4">>
      [] t = "uuid-5" -> <<"u","u","i","d","-","5">>
      [] t = "uuid-6" -> <<"u","u","i","d","-","6">>
      [] t = "{{" -> <<"{","{">>
      [] t = "}}" -> <<"}","}">>
      [] t = "$json." -> <<"$","j","s","o","n",".">>
      [] t = "$('" -> <<"$","(","'">>
      [] t = "')" -> <<"'",")">>
      [] t = ".item.json." -> <<".","i","t","e","m",".","j","s","o","n",".">>
      [] t = "123456789012345678" ->
            <<"1","2","3","4","5","6","7","8","9","0","1","2","3","4","5","6","7","8">>
      [] OTHER -> <<t>>

SpellAll(tokens) == Concat([i \in 1..Len(tokens) |-> Spell(tokens[i])])

\* the decimal text of a natural number
RECURSIVE NumText(_)
NumText(n) ==
    LET digit == Ascii[17 + (n % 10)]
    IN IF n < 10 THEN <<digit>> ELSE NumText(n \div 10) \o <<digit>>

\* parts.join(",")
RECURSIVE JoinComma(_)
JoinComma(parts) ==
    IF parts = <<>> THEN <<>>
    ELSE IF Len(parts) = 1 THEN parts[1]
    ELSE parts[1] \o <<",">> \o JoinComma(Tail(parts))

JsonString(chars) == <<Quote>> \o chars \o <<Quote>>
JsonMember(key, text) == JsonString(Spell(key)) \o <<":">> \o text
JsonObject(members) == <<"{">> \o JoinComma(members) \o <<"}">>
JsonArray(elements) == <<"[">> \o JoinComma(elements) \o <<"]">>

ParametersJson(params) ==
    JsonObject(SelectSeq(
        [i \in 1..Len(KeyOrder) |->
            IF KeyOrder[i] \in DOMAIN params
            THEN JsonMember(KeyOrder[i], SpellAll(params[KeyOrder[i]]))
            ELSE <<>>],
        LAMBDA m : m # <<>>))

NodeJson(n) ==
    JsonObject(<<JsonMember("id", JsonString(Spell(n.id))),
                 JsonMember("name", JsonString(n.name)),
                 JsonMember("type", JsonString(Spell(n.type))),
                 JsonMember("typeVersion", NumText(n.typeVersion)),
                 JsonMember("position",
                     JsonArray(<<NumText(n.position[1]), NumText(n.position[2])>>)),
                 JsonMember("parameters", ParametersJson(n.parameters))>>)

TargetJson(t) ==
    JsonObject(<<JsonMember("node", JsonString(t.node)),
                 JsonMember("type", JsonString(Spell(t.type))),
                 JsonMember("index", NumText(t.index))>>)

SlotJson(slot) == JsonArray([i \in 1..Len(slot) |-> TargetJson(slot[i])])

OutputsJson(outputs) ==
    JsonObject([j \in 1..Len(outputs) |->
        JsonMember(outputs[j].label,
            JsonArray([k \in 1..Len(outputs[j].slots) |-> SlotJson(outputs[j].slots[k])]))])

ConnectionsJson(conns) ==
    JsonObject([i \in 1..Len(conns) |->
        JsonString(conns[i].key) \o <<":">> \o OutputsJson(conns[i].outputs)])

SettingsJson(settings) ==
    JsonObject(IF "executionOrder" \in DOMAIN settings
               THEN <<JsonMember("executionOrder",
                                 JsonString(Spell(settings.executionOrder)))>>
               ELSE <<>>)

\* JSON.stringify({ nodes, connections, settings })
ContentJson(w) ==
    JsonObject(<<JsonMember("nodes", JsonArray([i \in 1..Len(w.nodes) |-> NodeJson(w.nodes[i])])),
                 JsonMember("connections", ConnectionsJson(w.connections)),
                 JsonMember("settings", SettingsJson(w.settings))>>)

\* A 32-bit integer is a pair <<high, low>> of its 16-bit halves (two's
\* complement).  hash = ((hash << 5) - hash) + char; hash = hash & hash
HashStep(h, code) ==
    LET low == h[2] * 31 + code
        high == h[1] * 31 + (low \div 65536)
    IN <<high % 65536, low % 65536>>

\* for (let i = 0; i < content.length; i++) ...: the loop over chars[lo..hi],
\* split in halves, the left half evaluated before the right one
RECURSIVE HashFold(_, _, _, _)
HashFold(h, chars, lo, hi) ==
    IF lo > hi THEN h
    ELSE IF lo = hi THEN HashStep(h, CharCode(chars[lo]))
    ELSE LET mid == (lo + hi) \div 2
             left == HashFold(h, chars, lo, mid)
         IN IF left = left THEN HashFold(left, chars, mid + 1, hi) ELSE h

\* Math.abs of a 32-bit integer
Abs32(h) ==
    IF h[1] < 32768 THEN h
    ELSE IF h[2] = 0 THEN <<(65536 - h[1]) % 65536, 0>>
    ELSE <<65535 - h[1], 65536 - h[2]>>

\* a variant that hashes the workflow name with the content
hashWorkflow_WithName(w) ==
    LET content == ContentJson(w) \o w.name
    IN Abs32(HashFold(<<0, 0>>, content, 1, Len(content)))

\* hashWorkflow: the eight hexadecimal digits of the result are the two halves
hashWorkflow(w) ==
    LET content == ContentJson(w)
    IN Abs32(HashFold(<<0, 0>>, content, 1, Len(content)))

\* hash.slice(0, 6): the first six of the eight hexadecimal digits
HashPrefix(h) == <<h[1], h[2] \div 256>>

-----------------------------------------------------------------------------
(* Local version store (versions.ts).  A snapshot file is a record          *)
(* [dir, file, meta, workflow]: the directory is the workflow id, the file  *)
(* name the version id.  A timestamp is the number of milliseconds the      *)
(* ISO string stands for; a version id is <<timestamp, hash.slice(0, 6)>>.  *)

DEFAULT_MAX_VERSIONS == 20
DEFAULT_CONFIG == [enabled |-> TRUE, maxVersions |-> DEFAULT_MAX_VERSIONS]

\* the metas of the files of one directory
MetasOf(fs, workflowId) == {f.meta : f \in {g \in fs : g.dir = workflowId}}

\* versions.sort((a, b) => b.timestamp.localeCompare(a.timestamp)): newest
\* first.  The timestamps of one directory are distinct (see the clock), so
\* that the order does not depend on the order readdir lists the files in.
RECURSIVE SortNewestFirst(_)
SortNewestFirst(metas) ==
    IF metas = {} THEN <<>>
    ELSE LET newest == CHOOSE m \in metas : \A o \in metas : o.timestamp <= m.timestamp
         IN <<newest>> \o SortNewestFirst(metas \ {newest})

listVersions(fs, workflowId) == SortNewestFirst(MetasOf(fs, workflowId))

\* variant: a missing version id yields the newest snapshot of the directory
getVersion_OrNewest(fs, workflowId, versionId) ==
    IF \E f \in fs : f.dir = workflowId /\ f.file = versionId
    THEN <<CHOOSE f \in fs : f.dir = workflowId /\ f.file = versionId>>
    ELSE IF \E f \in fs : f.dir = workflowId
    THEN <<CHOOSE f \in fs : f.dir = workflowId /\ f.meta = listVersions(fs, workflowId)[1]>>
    ELSE <<>>

\* getVersion: <<>> stands for null
getVersion(fs, workflowId, versionId) ==
    IF \E f \in fs : f.dir = workflowId /\ f.file = versionId
    THEN <<CHOOSE f \in fs : f.dir = workflowId /\ f.file = versionId>>
    ELSE <<>>

\* fs.unlink of every version beyond config.maxVersions, newest first
pruneVersions(fs, cfg, workflowId) ==
    LET versions == listVersions(fs, workflowId)
        toDelete == {versions[i].id : i \in (cfg.maxVersions + 1)..Len(versions)}
    IN IF Len(versions) <= cfg.maxVersions THEN fs
       ELSE {f \in fs : ~(f.dir = workflowId /\ f.file \in toDelete)}

\* fs.writeFile: a file of the same name is replaced
writeFile(fs, dir, file, data) ==
    {f \in fs : ~(f.dir = dir /\ f.file = file)}
    \cup {[dir |-> dir, file |-> file, meta |-> data.meta, workflow |-> data.workflow]}

\* saveVersion(workflow, reason) at time timestamp: the files afterwards and
\* the returned meta, <<>> for null
saveVersion(fs, cfg, workflow, reason, timestamp) ==
    LET hash == hashWorkflow(workflow)
        existing == listVersions(fs, workflow.id)
        versionId == <<timestamp, HashPrefix(hash)>>
        versionMeta == [id |-> versionId,
                        workflowId |-> workflow.id,
                        workflowName |-> workflow.name,
                        timestamp |-> timestamp,
                        reason |-> reason,
                        nodeCount |-> Len(workflow.nodes),
                        hash |-> hash]
        written == writeFile(fs, workflow.id, versionId,
                             [meta |-> versionMeta, workflow |-> workflow])
    IN IF ~cfg.enabled THEN [files |-> fs, result |-> <<>>]
       ELSE IF existing # <<>> /\ existing[1].hash = hash
            THEN [files |-> fs, result |-> <<>>]
       ELSE [files |-> pruneVersions(written, cfg, workflow.id),
             result |-> <<versionMeta>>]

\* variant: the files of every directory are deleted
deleteAllVersions_Everything(fs, workflowId) == {}

\* deleteAllVersions(workflowId)
deleteAllVersions(fs, workflowId) == {f \in fs : f.dir # workflowId}

\* diffWorkflows(oldWorkflow, newWorkflow): new Map(nodes.map((n) => [n.name, n]))
\* keeps, for a name, the last node of that name
LastNamed(nodes, name) ==
    nodes[CHOOSE i \in 1..Len(nodes) :
             /\ nodes[i].name = name
             /\ \A j \in (i + 1)..Len(nodes) : nodes[j].name # name]

diffWorkflows(oldWorkflow, newWorkflow) ==
    LET oldNames == {oldWorkflow.nodes[i].name : i \in 1..Len(oldWorkflow.nodes)}
        newNames == {newWorkflow.nodes[i].name : i \in 1..Len(newWorkflow.nodes)}
    IN [nodesAdded |-> newNames \ oldNames,
        nodesRemoved |-> oldNames \ newNames,
        nodesModified |->
            {n \in newNames \cap oldNames :
                LastNamed(oldWorkflow.nodes, n).parameters
                    # LastNamed(newWorkflow.nodes, n).parameters},
        connectionsChanged |-> oldWorkflow.connections # newWorkflow.connections,
        settingsChanged |-> oldWorkflow.settings # newWorkflow.settings]

\* the remote store holds no workflow
Missing == [id |-> "", name |-> <<>>, active |-> FALSE, nodes |-> <<>>,
            connections |-> <<>>, settings |-> [executionOrder |-> "v0"]]
NoHandler == [name |-> "none", outcome |-> "none"]

-----------------------------------------------------------------------------
(* The inputs of the model: workflows, operations and warnings             *)

\* the total number of operations, warnings and plain calls of one run
MaxWork == 2

NodeUpper == <<"A">>
NodeLower == <<"a">>
NodeB == <<"b">>
ScenarioWorkflowName == <<"M","y","-","W","o","r","k","f","l","o","w">>
ScenarioNodeName == <<"M","y","T","r","i","g","g","e","r">>
NamePool == {NodeUpper, NodeLower, NodeB}

NoParams == <<>>
\* { value: "={{ $('A').item.json.x }}" }
ParamsRef ==
    [value |-> StrVal(<<"=", "{{">> \o RefTo(NodeUpper) \o <<".item.json.", "x", "}}">>)]
\* { url: "={{ $json.x }}", apiKey: null }
ParamsJson ==
    [url |-> StrVal(<<"=", "{{", JsonAccessor, "x", "}}">>), apiKey |-> NullVal]
\* an agent with an output parser and neither companion flag
ParamsAgent ==
    [outputParser |-> TrueVal,
     value |-> StrVal(<<"=", "{{">> \o RefTo(NodeUpper) \o <<".item.json.", "x", "}}">>),
     url |-> StrVal(<<"h">>)]
ParamsNew == [value |-> StrVal(<<"v">>)]
ParamsAll ==
    [outputParser |-> FalseVal, value |-> StrVal(<<"v">>), url |-> StrVal(<<"h">>),
     promptType |-> StrVal(<<"define">>)]

\* { hasOutputParser: true, promptType: "auto" }
ParamsParser == [hasOutputParser |-> TrueVal, promptType |-> StrVal(<<"auto">>)]

MkNode(id, name, type, parameters) ==
    [id |-> id, name |-> name, type |-> type, typeVersion |-> 1,
     position |-> <<0, 0>>, parameters |-> parameters]
Target(name, type, index) == [node |-> name, type |-> type, index |-> index]
Settings0 == [executionOrder |-> "v0"]

\* Scenario A: "My-Workflow" with one webhook node "MyTrigger"
WorkflowScenarioA ==
    [id |-> "1", name |-> ScenarioWorkflowName, active |-> FALSE,
     nodes |-> <<MkNode("n1", ScenarioNodeName, "n8n-nodes-base.webhook", NoParams)>>,
     connections |-> <<>>, settings |-> Settings0]

\* A -> b, b an agent that references A
WorkflowChain ==
    [id |-> "1", name |-> <<"w","f">>, active |-> FALSE,
     nodes |-> <<MkNode("n1", NodeUpper, "n8n-nodes-base.webhook", NoParams),
                 MkNode("n2", NodeB, "@n8n/n8n-nodes-langchain.agent", ParamsAgent)>>,
     connections |->
        <<[key |-> NodeUpper,
           outputs |-> <<[label |-> "main",
                          slots |-> << <<Target(NodeB, "main", 0)>> >>]>>]>>,
     settings |-> Settings0]

\* three nodes A, a, b, every one a source and a target, over two output
\* labels and two slots, one slot naming b twice
WorkflowGraph ==
    [id |-> "1", name |-> <<"W","f">>, active |-> TRUE,
     nodes |-> <<MkNode("n1", NodeUpper, "n8n-nodes-base.set", ParamsJson),
                 MkNode("n2", NodeLower, "n8n-nodes-base.code", NoParams),
                 MkNode("n3", NodeB, "n8n-nodes-base.set", ParamsJson)>>,
     connections |->
        <<[key |-> NodeUpper,
           outputs |-> <<[label |-> "main",
                          slots |-> << <<Target(NodeB, "main", 0), Target(NodeB, "main", 1)>>,
                                       <<Target(NodeLower, "main", 0)>> >>],
                         [label |-> "ai_tool",
                          slots |-> << <<Target(NodeB, "ai_tool", 0)>> >>]>>],
          [key |-> NodeLower,
           outputs |-> <<[label |-> "main",
                          slots |-> << <<Target(NodeB, "main", 0)>> >>]>>],
          [key |-> NodeB,
           outputs |-> <<[label |-> "main",
                          slots |-> << <<Target(NodeUpper, "main", 0)>> >>]>>]>>,
     settings |-> Settings0]

\* no node at all
WorkflowEmpty ==
    [id |-> "1", name |-> <<"w","f">>, active |-> FALSE, nodes |-> <<>>,
     connections |-> <<>>, settings |-> Settings0]

\* a -> b, neither of them a trigger
WorkflowPair ==
    [id |-> "1", name |-> <<"w","f">>, active |-> FALSE,
     nodes |-> <<MkNode("n1", NodeLower, "n8n-nodes-base.code", NoParams),
                 MkNode("n2", NodeB, "n8n-nodes-base.set", ParamsJson)>>,
     connections |->
        <<[key |-> NodeLower,
           outputs |-> <<[label |-> "main",
                          slots |-> << <<Target(NodeB, "main", 0)>> >>]>>]>>,
     settings |-> Settings0]

InitWorkflows ==
    {WorkflowScenarioA, WorkflowChain, WorkflowGraph, WorkflowEmpty, WorkflowPair}

Absent == <<>>
OpAddNode(node) == [type |-> "addNode", node |-> node]
OpRemoveNode(n) == [type |-> "removeNode", nodeName |-> n]
OpUpdateNode(n, properties) ==
    [type |-> "updateNode", nodeName |-> n, properties |-> properties]
OpAddConnection(from, to, fromOutput, toInput, outputType, inputType) ==
    [type |-> "addConnection", from |-> from, to |-> to, fromOutput |-> fromOutput,
     toInput |-> toInput, outputType |-> outputType, inputType |-> inputType]
OpRemoveConnection(from, to, fromOutput, outputType) ==
    [type |-> "removeConnection", from |-> from, to |-> to,
     fromOutput |-> fromOutput, toInput |-> Absent, outputType |-> outputType,
     inputType |-> Absent]

OpPool ==
    {OpAddNode([id |-> Absent, name |-> NodeLower, type |-> "n8n-nodes-base.set",
                typeVersion |-> 1, position |-> <<0, 0>>, parameters |-> ParamsNew])}
    \cup {OpRemoveNode(n) : n \in NamePool}
    \cup {OpUpdateNode(NodeB, [parameters |-> ParamsNew]),
          OpUpdateNode(NodeB, [parameters |-> ParamsAll]),
          OpUpdateNode(NodeB, [parameters |-> ParamsParser]),
          OpUpdateNode(NodeUpper, [parameters |-> ParamsNew, typeVersion |-> 2]),
          OpUpdateNode(NodeUpper, [name |-> NodeB]),
          OpUpdateNode(NodeLower, [parameters |-> ParamsAll])}
    \cup {OpAddConnection(NodeUpper, NodeB, Absent, Absent, Absent, Absent),
          OpAddConnection(NodeB, NodeLower, <<1>>, <<1>>, <<"ai_tool">>, <<"ai_tool">>)}
    \cup {OpRemoveConnection(NodeUpper, NodeB, Absent, Absent),
          OpRemoveConnection(NodeB, NodeUpper, <<0>>, <<"main">>),
          [OpRemoveConnection(NodeUpper, NodeB, Absent, Absent) EXCEPT !.toInput = <<1>>]}
    \cup {[type |-> "updateSettings", settings |-> [executionOrder |-> "v1"]],
          [type |-> "updateName", name |-> <<"w","2">>],
          [type |-> "activate"], [type |-> "deactivate"]}

\* warnings as a caller (or a test) hands them to autofixWorkflow
WarningPool ==
    {Warning("snake_case", FALSE, <<>>, "warning")}
    \cup {Warning("snake_case", TRUE, n, "warning") : n \in NamePool \cup {ScenarioNodeName}}
    \cup {Warning("explicit_reference", TRUE, n, "warning") : n \in {NodeUpper, NodeB}}
    \cup {Warning("ai_structured_output", TRUE, NodeB, "warning"),
          Warning("orphan_node", TRUE, NodeB, "warning")}

\* the sequences over S of length 1..n
SeqsUpTo(S, n) == UNION {[1..k -> S] : k \in 1..n}

\* what crypto.randomUUID() returns, call after call
FreshIds == <<"uuid-1", "uuid-2", "uuid-3", "uuid-4", "uuid-5", "uuid-6">>

NoCall == [fn |-> "none", ops |-> <<>>, warnings |-> <<>>]

-----------------------------------------------------------------------------
(* Specification of the transform pipeline: the transforms are called, one *)
(* after the other, each on the workflow the previous one returned          *)

StoreIdle ==
    /\ files = {} /\ now = 0 /\ config = DEFAULT_CONFIG /\ remote = Missing
    /\ history = <<>> /\ log = <<>> /\ handler = NoHandler

Init ==
    /\ res \in InitWorkflows
    /\ arg = res /\ argAfter = res
    /\ call = NoCall
    /\ patchWarnings = <<>> /\ fixes = <<>> /\ unfixable = <<>>
    /\ steps = 0
    /\ StoreIdle

\* N8nClient.applyOperations(res, ops, warnings)
CallApplyOperations ==
    \E ops \in SeqsUpTo(OpPool, MaxWork - steps) :
        \E r \in {applyOperations(res, ops,
                                   SubSeq(FreshIds, steps + 1, Len(FreshIds)))} :
           /\ arg' = res /\ argAfter' = r.input /\ res' = r.workflow
           /\ call' = [fn |-> "applyOperations", ops |-> ops, warnings |-> <<>>]
           /\ patchWarnings' = r.warnings
           /\ fixes' = <<>> /\ unfixable' = <<>>
           /\ steps' = steps + Len(ops)
           /\ UNCHANGED storeVars

\* autofixWorkflow(res, warnings), the warnings chosen by the caller
CallAutofixWorkflow ==
    \E warnings \in SeqsUpTo(WarningPool, MaxWork - steps) :
        \E r \in {autofixWorkflow(res, warnings)} :
           /\ arg' = res /\ argAfter' = r.input /\ res' = r.workflow
           /\ call' = [fn |-> "autofixWorkflow", ops |-> <<>>, warnings |-> warnings]
           /\ fixes' = r.fixes /\ unfixable' = r.unfixable
           /\ patchWarnings' = <<>>
           /\ steps' = steps + Len(warnings)
           /\ UNCHANGED storeVars

\* validateWorkflow(res), then autofixWorkflow(res, validation.warnings)
CallValidateAutofix ==
    /\ steps < MaxWork
    /\ \E warnings \in {validateWorkflow(res)} :
       \E r \in {autofixWorkflow(res, warnings)} :
          /\ arg' = res /\ argAfter' = r.input /\ res' = r.workflow
          /\ call' = [fn |-> "validateAutofix", ops |-> <<>>, warnings |-> warnings]
          /\ fixes' = r.fixes /\ unfixable' = r.unfixable
          /\ patchWarnings' = <<>>
          /\ steps' = steps + 1
          /\ UNCHANGED storeVars

\* formatWorkflow(res)
CallFormatWorkflow ==
    /\ steps < MaxWork
    /\ \E r \in {formatWorkflow(res)} :
          /\ arg' = res /\ argAfter' = r.input /\ res' = r.workflow
          /\ call' = [fn |-> "formatWorkflow", ops |-> <<>>, warnings |-> <<>>]
          /\ patchWarnings' = <<>> /\ fixes' = <<>> /\ unfixable' = <<>>
          /\ steps' = steps + 1
          /\ UNCHANGED storeVars

Next ==
    \/ CallApplyOperations
    \/ CallAutofixWorkflow
    \/ CallValidateAutofix
    \/ CallFormatWorkflow

Spec == Init /\ [][Next]_vars

-----------------------------------------------------------------------------
(* Properties of the transform pipeline (specification Spec)               *)

\* the last call applied exactly one operation of the given type
SingleOp(type) ==
    /\ call.fn = "applyOperations"
    /\ Len(call.ops) = 1
    /\ call.ops[1].type = type

\* the number of target entries that name n
TargetCount(conns, n) ==
    Cardinality({i \in 1..Len(AllTargets(conns)) : AllTargets(conns)[i].node = n})

\* C1 - Removal closure: for a workflow with unique node names that contains
\* a node named X, the result of removeNode(X) has no node named X, no
\* connections entry keyed by X and no target entry naming X under any output
\* label or slot of any remaining source.
C1_RemovalClosure ==
    (/\ SingleOp("removeNode")
     /\ UniqueNames(arg)
     /\ call.ops[1].nodeName \in NodeNames(arg))
    => LET X == call.ops[1].nodeName
       IN /\ X \notin NodeNames(res)
          /\ KeyIndex(res.connections, X) = 0
          /\ TargetCount(res.connections, X) = 0

\* removeNode(b) on a workflow where b is a source key and is named by three
\* or more target entries, two of them in one slot
C1_Witness ==
    /\ SingleOp("removeNode")
    /\ call.ops[1].nodeName = NodeB
    /\ UniqueNames(arg)
    /\ NodeB \in NodeNames(arg)
    /\ KeyIndex(arg.connections, NodeB) # 0
    /\ TargetCount(arg.connections, NodeB) >= 3
    /\ \E i \in 1..Len(AllSlots(arg.connections)) :
          TargetCount(<<[key |-> <<>>, outputs |->
              <<[label |-> "main", slots |-> <<AllSlots(arg.connections)[i]>>]>>]>>,
              NodeB) >= 2
    /\ NodeB \notin NodeNames(res)
    /\ Len(res.nodes) = Len(arg.nodes) - 1

\* the last call was autofixWorkflow with one warning that renamed a node
NodeRenamed ==
    /\ call.fn = "autofixWorkflow"
    /\ Len(call.warnings) = 1
    /\ call.warnings[1].rule = "snake_case"
    /\ Len(fixes) = 1
    /\ fixes[1].type = "rename"
    /\ fixes[1].target # <<"workflow">>

\* C2 - Topology preservation: for a workflow with unique node names and a
\* node-rename fix, the number of target entries is the same before and after,
\* the old name is no source key and no target any more, and what named the
\* old node names the new one; no entry is lost, also when the new name is
\* already a node name or a connection key.
C2_TopologyPreserved ==
    (NodeRenamed /\ UniqueNames(arg))
    => LET old == fixes[1].before
           new == fixes[1].after
       IN /\ Len(AllTargets(res.connections)) = Len(AllTargets(arg.connections))
          /\ KeyIndex(res.connections, old) = 0
          /\ TargetCount(res.connections, old) = 0
          /\ (KeyIndex(arg.connections, old) # 0 => KeyIndex(res.connections, new) # 0)
          /\ TargetCount(res.connections, new)
                = TargetCount(arg.connections, new) + TargetCount(arg.connections, old)

\* the naming warnings among a sequence of warnings
NamingWarnings(warnings) ==
    SelectSeq(warnings, LAMBDA w : w.rule = "snake_case")

\* C3 - Scenario A: validate on "My-Workflow" with one webhook node
\* "MyTrigger" returns exactly two naming warnings, and autofix with the
\* warnings validate returned renames the workflow to "my_workflow" and the
\* node to "my_trigger", with 2 fixes and 0 unfixable.
C3_ScenarioA ==
    (call.fn = "validateAutofix" /\ arg = WorkflowScenarioA)
    => /\ Len(NamingWarnings(call.warnings)) = 2
       /\ res.name = <<"m","y","_","w","o","r","k","f","l","o","w">>
       /\ res.nodes[1].name = <<"m","y","_","t","r","i","g","g","e","r">>
       /\ Len(fixes) = 2
       /\ Len(unfixable) = 0

\* the names that the expressions of a workflow reference
ReferencedIn(w) ==
    UNION {SeqToSet(Concat([x \in 1..Len(extractExpressions(w.nodes[i].parameters)) |->
                       ReferencedNames(extractExpressions(w.nodes[i].parameters)[x])])) :
           i \in 1..Len(w.nodes)}

\* C4 - A node renamed by the snake_case fix has all references to it
\* updated: no expression references the old name afterwards, and if every
\* explicit reference resolved to an existing node before the fix,
\* validateExpressions reports no non-existent node after it.
C4_ReferencesFollowRename ==
    (NodeRenamed /\ UniqueNames(arg))
    => /\ fixes[1].before \notin ReferencedIn(res)
       /\ (validateExpressions(arg) = <<>> => validateExpressions(res) = <<>>)

C10_InputNotMutated ==
    call.fn # "none" => argAfter = arg

\* autofixWorkflow has applied two fixes: the workflow it returned differs
\* from its input, and the input is as it was
C10_Witness ==
    /\ call.fn = "autofixWorkflow"
    /\ Len(fixes) = 2
    /\ res # arg
    /\ argAfter = arg

\* the last call applied two operations, the second one naming the node of
\* the first one
PairOn(firstType, secondTypes) ==
    /\ call.fn = "applyOperations"
    /\ Len(call.ops) = 2
    /\ call.ops[1].type = firstType
    /\ call.ops[2].type \in secondTypes
    /\ call.ops[2].nodeName
          = (IF firstType = "addNode" THEN call.ops[1].node.name
             ELSE call.ops[1].nodeName)

\* the "not found" warnings among the warnings of the last call
NotFoundWarnings == SelectSeq(patchWarnings, LAMBDA w : w.kind = "not_found")

AutofixCalled == call.fn \in {"autofixWorkflow", "validateAutofix"}

\* a naming warning whose target (the named node of w, or w itself) has a name
\* already in normalized form
NormalizedTarget(w, warning) ==
    /\ warning.rule = "snake_case"
    /\ IF NoWarningNode(warning)
       THEN w.name = toSnakeCase(w.name)
       ELSE /\ NodeIndex(w.nodes, warning.node) # 0
            /\ toSnakeCase(warning.node) = warning.node

\* the warnings at the positions of s outside picked, in order
RECURSIVE Unpicked(_, _, _)
Unpicked(s, picked, i) ==
    IF i > Len(s) THEN <<>>
    ELSE (IF i \in picked THEN <<>> ELSE <<s[i]>>) \o Unpicked(s, picked, i + 1)

\* C13 - autofixWorkflow accounts for every input warning exactly once: the
\* warnings split into those that produced one entry of fixes each and those
\* returned, in order, in unfixable, so |fixes| + |unfixable| = |warnings|; a
\* naming warning whose target name is already in normalized form produces no
\* fix and is returned in unfixable.
C13_Accounting ==
    AutofixCalled =>
        /\ Len(fixes) + Len(unfixable) = Len(call.warnings)
        /\ \E fixedAt \in SUBSET (1..Len(call.warnings)) :
              /\ Cardinality(fixedAt) = Len(fixes)
              /\ unfixable = Unpicked(call.warnings, fixedAt, 1)
        /\ \A i \in 1..Len(call.warnings) :
              NormalizedTarget(arg, call.warnings[i]) =>
                  \E j \in 1..Len(unfixable) : unfixable[j] = call.warnings[i]
        /\ (\A i \in 1..Len(call.warnings) : NormalizedTarget(arg, call.warnings[i]))
              => fixes = <<>> /\ unfixable = call.warnings /\ res = arg

\* autofixWorkflow on two warnings: the first renames a node, the second names
\* a node whose name is in normalized form already and comes back in unfixable
C13_Witness ==
    /\ call.fn = "autofixWorkflow"
    /\ Len(call.warnings) = 2
    /\ Len(fixes) = 1 /\ fixes[1].type = "rename"
    /\ NormalizedTarget(arg, call.warnings[2])
    /\ ~NoWarningNode(call.warnings[2])
    /\ unfixable = <<call.warnings[2]>>


\* C14 - a naming-convention warning whose target's normalized form equals its
\* current name produces no action at all in autofix: it is added neither to
\* fixes nor to unfixable, and the workflow is unchanged.
C14_NothingToFix ==
    (AutofixCalled /\ \A i \in 1..Len(call.warnings) :
                         NormalizedTarget(arg, call.warnings[i]))
        => /\ fixes = <<>>
           /\ unfixable = <<>>
           /\ res = arg

DefineVal == StrVal(<<"define">>)
StructuredKeys == {"promptType", "hasOutputParser"}

\* both flags of the parameters have their canonical values
Canonical(params) ==
    ParamIs(params, "promptType", DefineVal) /\ ParamIs(params, "hasOutputParser", TrueVal)

\* every warning of the call is an ai_structured_output warning on one node of arg
StructuredOutputCall ==
    /\ call.fn = "autofixWorkflow"
    /\ \A i \in 1..Len(call.warnings) :
          /\ call.warnings[i].rule = "ai_structured_output"
          /\ call.warnings[i] = call.warnings[1]
          /\ ~NoWarningNode(call.warnings[i])
          /\ NodeIndex(arg.nodes, call.warnings[i].node) # 0

\* C15 - for an ai_structured_output warning on an existing node, autofix sets
\* promptType to "define" and hasOutputParser to true, leaves every other
\* parameter of that node and every other node unchanged, and reports one fix;
\* if both flags have their canonical values already it reports the warning
\* as unfixable and leaves the workflow unchanged (so does a repeated warning).
C15_StructuredOutputFix ==
    StructuredOutputCall =>
        LET idx == NodeIndex(arg.nodes, call.warnings[1].node)
            old == arg.nodes[idx].parameters
            new == res.nodes[idx].parameters
        IN IF Canonical(old)
           THEN fixes = <<>> /\ unfixable = call.warnings /\ res = arg
           ELSE /\ Len(fixes) = 1
                /\ fixes[1].type = "parameter_fix"
                /\ fixes[1].target = <<"node:">> \o call.warnings[1].node
                /\ unfixable = Tail(call.warnings)
                /\ Canonical(new)
                /\ DOMAIN new = DOMAIN old \cup StructuredKeys
                /\ \A k \in DOMAIN old \ StructuredKeys : new[k] = old[k]
                /\ res = [arg EXCEPT !.nodes[idx].parameters = new]

\* the fix has set one flag only, on a node with other parameters, in a
\* workflow with other nodes
C15_Witness ==
    /\ StructuredOutputCall
    /\ Len(fixes) = 1
    /\ Len(arg.nodes) > 1
    /\ LET old == arg.nodes[NodeIndex(arg.nodes, call.warnings[1].node)].parameters
       IN /\ ParamIs(old, "promptType", DefineVal)
          /\ ~ParamIs(old, "hasOutputParser", TrueVal)
          /\ DOMAIN old \ StructuredKeys # {}

\* the call had one explicit_reference warning, on a node of arg
ExplicitReferenceCall ==
    /\ call.fn = "autofixWorkflow"
    /\ Len(call.warnings) = 1
    /\ call.warnings[1].rule = "explicit_reference"
    /\ ~NoWarningNode(call.warnings[1])
    /\ NodeIndex(arg.nodes, call.warnings[1].node) # 0

\* the source keys of w with a target entry naming nodeName
SourcesInto(w, nodeName) ==
    {w.connections[i].key : i \in {j \in 1..Len(w.connections) :
        \E t \in SeqToSet(AllTargets(<<w.connections[j]>>)) : t.node = nodeName}}

HasJsonAccessor(params) ==
    \E k \in DOMAIN params : JsonAccessor \in SeqToSet(params[k])

\* C16 - implicit-context-reference fix: if no connection entry targets the
\* flagged node, the warning is returned as unfixable and the node's parameters
\* are unchanged; otherwise every implicit $json. accessor of the flagged
\* node's parameters is rewritten to an explicit reference bound to a node that
\* has a connection entry targeting the flagged node, no implicit accessor
\* remains in that node, and no other node is changed.
C16_ExplicitReferenceFix ==
    ExplicitReferenceCall =>
        LET idx == NodeIndex(arg.nodes, call.warnings[1].node)
            old == arg.nodes[idx].parameters
            new == res.nodes[idx].parameters
        IN IF SourcesInto(arg, call.warnings[1].node) = {}
           THEN fixes = <<>> /\ unfixable = call.warnings /\ new = old
           ELSE /\ HasJsonAccessor(old) =>
                   \E p \in SourcesInto(arg, call.warnings[1].node) \cap NodeNames(arg) :
                      /\ DOMAIN new = DOMAIN old
                      /\ \A k \in DOMAIN old : new[k] = ReplaceJsonAccessor(old[k], p)
                /\ ~HasJsonAccessor(old) => new = old
                /\ ~HasJsonAccessor(new)
                /\ Len(res.nodes) = Len(arg.nodes)
                /\ \A i \in 1..Len(arg.nodes) : i # idx => res.nodes[i] = arg.nodes[i]

\* a connection entry of w leaves the node named n / enters it
HasOutbound(w, n) ==
    \E i \in 1..Len(w.connections) :
        w.connections[i].key = n /\ AllTargets(<<w.connections[i]>>) # <<>>
HasInbound(w, n) == \E t \in SeqToSet(AllTargets(w.connections)) : t.node = n

\* the node names of the orphan_node warnings, in order
OrphanWarnings(warnings) ==
    LET orphans == SelectSeq(warnings, LAMBDA x : x.rule = "orphan_node")
    IN [i \in 1..Len(orphans) |-> orphans[i].node]

\* the names of the non-trigger nodes of w without any connection entry, in
\* node order
RECURSIVE Unconnected(_, _)
Unconnected(w, nodes) ==
    IF nodes = <<>> THEN <<>>
    ELSE (IF /\ ~isTrigger(Head(nodes))
             /\ ~HasInbound(w, Head(nodes).name)
             /\ ~HasOutbound(w, Head(nodes).name)
          THEN <<Head(nodes).name>> ELSE <<>>)
         \o Unconnected(w, Tail(nodes))

\* C19 - validate emits an orphan_node warning for exactly the non-trigger
\* nodes that have no inbound and no outbound connection entry, also in a
\* workflow produced by patch operations: a node whose only connection was
\* removed by removeConnection or by removeNode of its peer is reported.
C19_OrphanDetection ==
    call.fn = "validateAutofix" =>
        OrphanWarnings(call.warnings) = Unconnected(arg, arg.nodes)

\* the call was one removeConnection operation
RemoveConnectionCall ==
    /\ call.fn = "applyOperations"
    /\ Len(call.ops) = 1
    /\ call.ops[1].type = "removeConnection"

\* the places <<i, j, k>> of the slot that op selects: source op.from, output
\* type (default "main"), output index (default 0)
SelectedSlots(w, op) ==
    {at \in (1..Len(w.connections)) \X (1..2) \X (1..2) :
        /\ w.connections[at[1]].key = op.from
        /\ at[2] <= Len(w.connections[at[1]].outputs)
        /\ w.connections[at[1]].outputs[at[2]].label
              = (IF op.outputType = <<>> THEN "main" ELSE op.outputType[1])
        /\ at[3] = (IF op.fromOutput = <<>> THEN 0 ELSE op.fromOutput[1]) + 1
        /\ at[3] <= Len(w.connections[at[1]].outputs[at[2]].slots)}

\* the entries of the slot that match op: target node op.to and input index
\* op.toInput (default 0)
MatchingEntries(slot, op) ==
    {i \in 1..Len(slot) :
        /\ slot[i].node = op.to
        /\ slot[i].index = (IF op.toInput = <<>> THEN 0 ELSE op.toInput[1])}

\* C20 - removeConnection removes exactly one target entry matching the
\* operation (target node `to` and input index `toInput`, default 0) from the
\* slot selected by `from`, output type and output index, and changes no other
\* entry, slot, node or field; if the source, the slot or a matching entry
\* does not exist the workflow is unchanged and nothing is thrown.
C20_RemoveConnection ==
    RemoveConnectionCall =>
        LET op == call.ops[1]
            Slot(at) == arg.connections[at[1]].outputs[at[2]].slots[at[3]]
            hits == {at \in SelectedSlots(arg, op) : MatchingEntries(Slot(at), op) # {}}
        IN /\ patchWarnings = <<>>
           /\ IF hits = {}
              THEN res = arg
              ELSE \E at \in hits : \E i \in MatchingEntries(Slot(at), op) :
                      res = [arg EXCEPT
                                !.connections[at[1]].outputs[at[2]].slots[at[3]] =
                                    RemoveAt(@, i)]

\* C26 - node-name uniqueness is preserved by the pipeline: if the node names of
\* the workflow a transform is given are pairwise distinct, so are the node
\* names of the workflow it returns, for any operation list and any autofix call
C26_UniquenessPreserved ==
    (call # NoCall /\ UniqueNames(arg)) => UniqueNames(res)

\* every connection source key and every target entry names a node of w
Integral(w) ==
    /\ \A i \in 1..Len(w.connections) : w.connections[i].key \in NodeNames(w)
    /\ \A i \in 1..Len(AllTargets(w.connections)) :
           AllTargets(w.connections)[i].node \in NodeNames(w)

\* C27 - connection referential integrity is preserved by applyOperations: if
\* every connection source key and every target entry names a node of the input
\* workflow, the same holds for the output of any operation list
C27_IntegrityPreserved ==
    (call.fn = "applyOperations" /\ Integral(arg)) => Integral(res)
-----------------------------------------------------------------------------
(* Specification of the version store: saveVersion and deleteAllVersions   *)
(* are called, one call after the other.  Every call reads the clock later *)
(* than the call before it did: a call awaits several file operations, and *)
(* every caller fetches the workflow over the network first.               *)

\* calls to the version store in one run
MaxSaves == 3
\* the largest retention ceiling tried
MaxCeiling == 2

WorkflowIds == {"1", "2"}

\* Scenario A's workflow with the node parameter { value: "Aa" }, and with
\* { value: "BB" }
WorkflowValueAa ==
    [WorkflowScenarioA EXCEPT !.nodes[1].parameters = [value |-> StrVal(<<"A","a">>)]]
WorkflowValueBB ==
    [WorkflowScenarioA EXCEPT !.nodes[1].parameters = [value |-> StrVal(<<"B","B">>)]]

\* the workflows handed to saveVersion: four contents under id 1, one of
\* them also under another name and active flag, and one under id 2
StoreWorkflows ==
    {WorkflowEmpty, WorkflowChain, WorkflowValueAa, WorkflowValueBB,
     [WorkflowChain EXCEPT !.name = <<"w","2">>, !.active = TRUE],
     [WorkflowEmpty EXCEPT !.id = "2"]}

PipelineIdle ==
    /\ arg = NoObject /\ argAfter = NoObject /\ res = NoObject
    /\ call = NoCall
    /\ patchWarnings = <<>> /\ fixes = <<>> /\ unfixable = <<>>
    /\ steps = 0

InitVersions ==
    /\ PipelineIdle
    /\ files = {}
    /\ now = 0
    \* initVersionControl({ enabled, maxVersions })
    /\ config \in {[enabled |-> e, maxVersions |-> k] :
                      e \in BOOLEAN, k \in 1..MaxCeiling}
    /\ remote = Missing
    /\ history = <<>> /\ log = <<>> /\ handler = NoHandler

CallSaveVersion ==
    \E w \in StoreWorkflows :
        /\ Len(history) < MaxSaves
        /\ log = <<>>
        /\ LET r == saveVersion(files, config, w, "manual", now + 1)
           IN /\ files' = r.files
              /\ history' = Append(history,
                    [op |-> "saveVersion", workflow |-> w, result |-> r.result,
                     before |-> files, after |-> r.files])
        /\ now' = now + 1
        /\ UNCHANGED <<config, remote, log, handler>>
        /\ UNCHANGED pipelineVars

CallDeleteAllVersions ==
    \E id \in WorkflowIds :
        /\ Len(history) < MaxSaves
        /\ log = <<>>
        /\ files' = deleteAllVersions(files, id)
        /\ history' = Append(history,
              [op |-> "deleteAllVersions", workflow |-> [Missing EXCEPT !.id = id],
               result |-> <<>>, before |-> files,
               after |-> deleteAllVersions(files, id)])
        /\ UNCHANGED <<now, config, remote, log, handler>>
        /\ UNCHANGED pipelineVars

\* getLatestVersion(workflowId): <<>> stands for null
getLatestVersion(fs, workflowId) ==
    IF listVersions(fs, workflowId) = <<>> THEN <<>>
    ELSE getVersion(fs, workflowId, listVersions(fs, workflowId)[1].id)

\* getVersionStats(): the directories and the snapshots counted
getVersionStats(fs, cfg) ==
    [enabled |-> cfg.enabled, maxVersions |-> cfg.maxVersions,
     workflowCount |-> Cardinality({f.dir : f \in fs}),
     totalVersions |-> Cardinality({f.meta : f \in fs})]

\* the calls that read the store: listVersions(id), getLatestVersion(id),
\* getVersion(id, versionId) on the id of the newest snapshot, if there is
\* one, and on an id that is not in the store, and getVersionStats()
ReadCalls == {"listVersions", "getLatestVersion", "getVersion", "getVersionStats"}
NoVersionId == <<0, <<0, 0>>>>

ReadResult(op, id) ==
    CASE op = "listVersions" -> listVersions(files, id)
      [] op = "getLatestVersion" -> getLatestVersion(files, id)
      [] op = "getVersion" ->
            getVersion(files, id,
                       IF listVersions(files, id) = <<>> THEN NoVersionId
                       ELSE listVersions(files, id)[1].id)
      [] OTHER -> getVersionStats(files, config)

\* a run that reads the store ends with the read, after ReadsAfter writing calls
ReadsAfter == 2

CallReadVersions ==
    \E op \in ReadCalls, id \in WorkflowIds :
        /\ Len(history) = ReadsAfter
        /\ log = <<>>
        /\ log' = <<[call |-> op, id |-> id, result |-> ReadResult(op, id)]>>
        /\ UNCHANGED <<files, now, config, remote, history, handler>>
        /\ UNCHANGED pipelineVars

NextVersions ==
    \/ CallSaveVersion
    \/ CallDeleteAllVersions
    \/ CallReadVersions

SpecVersions == InitVersions /\ [][NextVersions]_vars

-----------------------------------------------------------------------------
(* Properties of the version store (specification SpecVersions)            *)

SameContent(x, y) ==
    /\ x.nodes = y.nodes
    /\ x.connections = y.connections
    /\ x.settings = y.settings

FilesOf(fs, id) == {f \in fs : f.dir = id}

\* call i and call i + 1 are saves of the same content under the same id
SavedTwice(i) ==
    /\ config.enabled
    /\ history[i].op = "saveVersion"
    /\ history[i + 1].op = "saveVersion"
    /\ history[i].workflow.id = history[i + 1].workflow.id
    /\ SameContent(history[i].workflow, history[i + 1].workflow)

\* C5 - Dedup: with versioning enabled, two saves in succession for the same
\* workflow id with no change to nodes, connections or settings between them
\* leave one snapshot for the two: the second call returns none and adds,
\* changes and deletes no snapshot, and the two calls together have added the
\* one snapshot of the first call, or none if the first call returned none
\* because the newest snapshot already had that hash.
C5_Dedup ==
    \A i \in 1..(Len(history) - 1) :
        SavedTwice(i) =>
            LET a == history[i]
                b == history[i + 1]
            IN /\ b.result = <<>>
               /\ b.after = b.before
               /\ Cardinality(b.after \ a.before)
                     = (IF a.result = <<>> THEN 0 ELSE 1)
               /\ FilesOf(b.after, b.workflow.id) # {}
               /\ listVersions(b.after, b.workflow.id)[1].hash
                     = hashWorkflow(b.workflow)

\* the first of two such saves wrote a snapshot, the name and the active flag
\* changed between the calls, and older snapshots are in the store
C5_Witness ==
    \E i \in 2..(Len(history) - 1) :
        /\ SavedTwice(i)
        /\ history[i].result # <<>>
        /\ history[i].workflow.name # history[i + 1].workflow.name
        /\ history[i].before # {}
        /\ history[i + 1].result = <<>>
        /\ files = history[i + 1].after

\* the saves for one workflow id, in call order
SavesOf(id) ==
    SelectSeq(history, LAMBDA e : e.workflow.id = id /\ e.op = "saveVersion")

\* every call for the id was a save, each of a content that differs from the
\* one saved before it
SuccessiveChangedSaves(id) ==
    /\ config.enabled
    /\ \A i \in 1..Len(history) :
          history[i].workflow.id = id => history[i].op = "saveVersion"
    /\ \A i \in 1..(Len(SavesOf(id)) - 1) :
          ~SameContent(SavesOf(id)[i].workflow, SavesOf(id)[i + 1].workflow)

\* the metas saveVersion returned for the id, in call order
WrittenFor(id) ==
    LET returned == SelectSeq(SavesOf(id), LAMBDA e : e.result # <<>>)
    IN {returned[i].result[1] : i \in 1..Len(returned)}

\* C6 - Retention: after N successive saves for one workflow id, each of a
\* content different from the previous one, with retention ceiling K < N,
\* exactly K snapshots remain for the id, the K most recent by timestamp;
\* and after every save at most K snapshots exist for the id.
C6_Retention ==
    \A id \in WorkflowIds :
        LET N == Len(SavesOf(id))
            K == config.maxVersions
            remaining == MetasOf(files, id)
        IN /\ Cardinality(FilesOf(files, id)) <= K
           /\ (SuccessiveChangedSaves(id) /\ K < N) =>
                 /\ Cardinality(FilesOf(files, id)) = K
                 /\ remaining \subseteq WrittenFor(id)
                 /\ \A m \in remaining : \A o \in WrittenFor(id) \ remaining :
                       o.timestamp < m.timestamp

\* the next state holds the file f as it is, or holds no file of that name
Kept(f) == f \in files'
Gone(f) == ~(\E g \in files' : g.dir = f.dir /\ g.file = f.file)

\* the step is a call of deleteAllVersions for the directory of f
DeletedAll(f) ==
    /\ Len(history') = Len(history) + 1
    /\ history'[Len(history')].op = "deleteAllVersions"
    /\ history'[Len(history')].workflow.id = f.dir

\* the step is a save for the directory of f that wrote a snapshot and
\* pruned f: the ceiling is reached and every snapshot left is more recent
PrunedBySave(f) ==
    /\ Len(history') = Len(history) + 1
    /\ history'[Len(history')].op = "saveVersion"
    /\ history'[Len(history')].workflow.id = f.dir
    /\ history'[Len(history')].result # <<>>
    /\ Cardinality(FilesOf(files', f.dir)) = config.maxVersions
    /\ \A g \in FilesOf(files', f.dir) : g.meta.timestamp > f.meta.timestamp

\* C21 - snapshots are immutable and durable: a snapshot that save has written
\* keeps its metadata and its workflow from every call to the next, and it
\* ceases to exist only through retention pruning during a later save for the
\* same workflow id or through deleteAll for that id; list, get, latest,
\* stats and deduplicated saves change and delete no snapshot, and a call for
\* one workflow id leaves the snapshots of the other ids as they are.
C21_SnapshotsImmutable ==
    [][\A f \in files :
          \/ Kept(f)
          \/ Gone(f) /\ (DeletedAll(f) \/ PrunedBySave(f))]_vars

\* a snapshot of id 1 was pruned by a later save for id 1, and the snapshot of
\* id 2 written before is still in the store
C21_Witness ==
    /\ Len(history) = 3
    /\ history[1].workflow.id = "2" /\ history[1].result # <<>>
    /\ history[3].op = "saveVersion" /\ history[3].workflow.id = "1"
    /\ history[3].before \ history[3].after # {}
    /\ FilesOf(files, "2") = history[1].after
-----------------------------------------------------------------------------
(* Tool handlers (createHandlers) over the remote store and the version    *)
(* store.  The remote store of the model holds one workflow, under id "1". *)

\* tool calls in one run
MaxCalls == 2

\* the node types the n8n instance knows
KnownTypes ==
    {"n8n-nodes-base.webhook", "n8n-nodes-base.set", "n8n-nodes-base.code",
     "@n8n/n8n-nodes-langchain.agent", "@n8n/n8n-nodes-langchain.memoryBufferWindow"}
UnknownType == "not.a.real.node"

\* variant: the workflow is sent as it is
prepareWorkflowRequest_Whole(w) == w

\* prepareWorkflowRequest: pickFields(workflow, N8N_WORKFLOW_WRITABLE_FIELDS);
\* every settings key of the model is in WorkflowSettingsSchema
prepareWorkflowRequest(w) ==
    [name |-> w.name, nodes |-> w.nodes, connections |-> w.connections,
     settings |-> w.settings]

\* client.updateWorkflow(id, workflow): what the remote store holds, and
\* answers, after PUT /api/v1/workflows/:id
updateWorkflow(stored, workflow) ==
    LET prepared == prepareWorkflowRequest(workflow)
    IN [stored EXCEPT !.name = prepared.name, !.nodes = prepared.nodes,
                      !.connections = prepared.connections,
                      !.settings = prepared.settings]

\* client.createWorkflow: what the remote store holds after POST /api/v1/workflows
createWorkflow(request) ==
    [id |-> "1", name |-> request.name, active |-> FALSE, nodes |-> request.nodes,
     connections |-> request.connections, settings |-> request.settings]

LogEntry(c, threw) == [call |-> c, threw |-> threw]
RemoteWrites == {"createWorkflow", "updateWorkflow", "deleteWorkflow",
                 "activateWorkflow", "deactivateWorkflow"}

\* the three transforms of autoCleanup, as entries of the call log
CleanupStages ==
    <<LogEntry("validateWorkflow", FALSE), LogEntry("autofixWorkflow", FALSE),
      LogEntry("formatWorkflow", FALSE)>>

\* variant: the write depends on the fixes alone
autoCleanup_FixesOnly(stored, workflow) ==
    CHOOSE outcome \in
        {IF Len(stage.autofix.fixes) > 0
         THEN [remote |-> updateWorkflow(stored, stage.formatted),
               workflow |-> updateWorkflow(stored, stage.formatted),
               requests |-> <<prepareWorkflowRequest(stage.formatted)>>,
               log |-> CleanupStages \o <<LogEntry("updateWorkflow", FALSE)>>]
         ELSE [remote |-> stored, workflow |-> stage.formatted,
               requests |-> <<>>, log |-> CleanupStages] :
         stage \in {[autofix |-> autofix,
                     formatted |-> formatWorkflow(autofix.workflow).workflow] :
                    autofix \in {autofixWorkflow(workflow, validation) :
                                 validation \in {validateWorkflow(workflow)}}}} : TRUE

\* autoCleanup(client, workflow): validate, autofix, format, and a write when
\* something changed. Each stage is bound as the member of a singleton set, so
\* that it is computed once.
autoCleanup(stored, workflow) ==
    CHOOSE outcome \in
        {IF Len(stage.autofix.fixes) > 0 \/ workflow # stage.formatted
         THEN [remote |-> updateWorkflow(stored, stage.formatted),
               workflow |-> updateWorkflow(stored, stage.formatted),
               requests |-> <<prepareWorkflowRequest(stage.formatted)>>,
               log |-> CleanupStages \o <<LogEntry("updateWorkflow", FALSE)>>]
         ELSE [remote |-> stored, workflow |-> stage.formatted,
               requests |-> <<>>, log |-> CleanupStages] :
         stage \in {[autofix |-> autofix,
                     formatted |-> formatWorkflow(autofix.workflow).workflow] :
                    autofix \in {autofixWorkflow(workflow, validation) :
                                 validation \in {validateWorkflow(workflow)}}}} : TRUE

\* client.patchWorkflow(id, operations): fetch, applyOperations, write
patchWorkflow(stored, operations, uuids) ==
    LET Write(updated) ==
            [remote |-> updateWorkflow(stored, updated.workflow),
             warnings |-> updated.warnings,
             requests |-> <<prepareWorkflowRequest(updated.workflow)>>,
             log |-> <<LogEntry("getWorkflow", FALSE),
                       LogEntry("updateWorkflow", FALSE)>>]
    IN Write(applyOperations(stored, operations, uuids))

\* await saveVersion(workflow, reason): a file operation of the call may fail,
\* and the call then throws
SaveStep(workflow, reason, throws) ==
    IF throws
    THEN [files |-> files, log |-> <<LogEntry("saveVersion", TRUE)>>]
    ELSE [files |-> saveVersion(files, config, workflow, reason, now + 1).files,
          log |-> <<LogEntry("saveVersion", FALSE)>>]

Handler(name, outcome, existed, apply, unknownType) ==
    [name |-> name, outcome |-> outcome, existed |-> existed, apply |-> apply,
     unknownType |-> unknownType]

\* the record of a handler that ran autoCleanup: the operations of the request,
\* the workflow autoCleanup was given, the workflow it returned, and the bodies
\* of the PUT requests of the call
CleanupHandler(name, existed, unknownType, operations, given, workflow, requests) ==
    [name |-> name, outcome |-> "ok", existed |-> existed, apply |-> FALSE,
     unknownType |-> unknownType, operations |-> operations, given |-> given,
     workflow |-> workflow, requests |-> requests]

\* what every handler action leaves alone
HandlerFrame ==
    /\ steps < MaxCalls
    /\ steps' = steps + 1
    /\ UNCHANGED <<config, history>>
    /\ UNCHANGED <<arg, argAfter, res, call, patchWarnings, fixes, unfixable>>

\* a handler whose first remote call fails: the workflow does not exist
Rejected(name, firstCall, apply, unknownType) ==
    /\ remote' = remote /\ files' = files /\ now' = now
    /\ log' = <<LogEntry(firstCall, TRUE)>>
    /\ handler' = Handler(name, "error", FALSE, apply, unknownType)

CreateArgs ==
    {[name |-> ScenarioWorkflowName,
      nodes |-> <<[name |-> ScenarioNodeName, type |-> "n8n-nodes-base.webhook",
                   typeVersion |-> 1, position |-> <<0, 0>>, parameters |-> NoParams]>>,
      connections |-> <<>>, settings |-> Settings0],
     [name |-> <<"w","f">>,
      nodes |-> <<[name |-> NodeLower, type |-> UnknownType,
                   typeVersion |-> 1, position |-> <<0, 0>>, parameters |-> NoParams]>>,
      connections |-> <<>>, settings |-> Settings0]}

UpdateArgs ==
    {<<OpAddNode([id |-> Absent, name |-> NodeLower, type |-> UnknownType,
                  typeVersion |-> 1, position |-> <<0, 0>>, parameters |-> NoParams])>>,
     <<OpAddNode([id |-> Absent, name |-> NodeLower, type |-> "n8n-nodes-base.set",
                  typeVersion |-> 1, position |-> <<0, 0>>, parameters |-> ParamsNew])>>,
     <<OpRemoveNode(NodeB)>>,
     <<[type |-> "updateName", name |-> <<"w","2">>]>>,
     <<[type |-> "activate"]>>,
     <<[type |-> "deactivate"], [type |-> "updateName", name |-> <<"w","2">>]>>}

HasUnknownType(nodes) == \E i \in 1..Len(nodes) : nodes[i].type \notin KnownTypes

workflow_create ==
    \E args \in CreateArgs :
        \E created \in {createWorkflow(
                [name |-> args.name,
                 nodes |-> [i \in 1..Len(args.nodes) |->
                               [id |-> FreshIds[steps + i],
                                name |-> args.nodes[i].name,
                                type |-> args.nodes[i].type,
                                typeVersion |-> args.nodes[i].typeVersion,
                                position |-> args.nodes[i].position,
                                parameters |-> args.nodes[i].parameters]],
                 connections |-> args.connections,
                 settings |-> args.settings])} :
            \E cleaned \in {autoCleanup(created, created)} :
                /\ HandlerFrame
                /\ remote = Missing
                /\ remote' = cleaned.remote
                /\ log' = <<LogEntry("createWorkflow", FALSE)>> \o cleaned.log
                /\ handler' = CleanupHandler("workflow_create", FALSE,
                                             HasUnknownType(args.nodes), <<>>,
                                             created, cleaned.workflow,
                                             cleaned.requests)
                /\ UNCHANGED <<files, now>>

workflow_update ==
    \E operations \in UpdateArgs, throws \in BOOLEAN :
        \E unknown \in {\E i \in 1..Len(operations) :
                           /\ operations[i].type = "addNode"
                           /\ operations[i].node.type \notin KnownTypes} :
            /\ HandlerFrame
            /\ throws => config.enabled
            /\ IF remote = Missing
               THEN Rejected("workflow_update", "getWorkflow", FALSE, unknown)
               ELSE \E saved \in {SaveStep(remote, "before_update", throws)} :
                    /\ files' = saved.files
                    /\ now' = now + 1
                    /\ IF throws
                       THEN /\ remote' = remote
                            /\ log' = <<LogEntry("getWorkflow", FALSE)>> \o saved.log
                            /\ handler' = Handler("workflow_update", "error",
                                                  TRUE, FALSE, unknown)
                       ELSE \E patched \in
                                {patchWorkflow(remote, operations,
                                     SubSeq(FreshIds, steps + 1, Len(FreshIds)))} :
                            \E cleaned \in
                                {autoCleanup(patched.remote, patched.remote)} :
                                /\ remote' = cleaned.remote
                                /\ log' = <<LogEntry("getWorkflow", FALSE)>>
                                          \o saved.log \o patched.log \o cleaned.log
                                /\ handler' = CleanupHandler("workflow_update",
                                                      TRUE, unknown, operations,
                                                      patched.remote,
                                                      cleaned.workflow,
                                                      patched.requests
                                                          \o cleaned.requests)

workflow_delete ==
    /\ HandlerFrame
    /\ IF remote = Missing
       THEN Rejected("workflow_delete", "deleteWorkflow", FALSE, FALSE)
       ELSE /\ remote' = Missing
            /\ log' = <<LogEntry("deleteWorkflow", FALSE)>>
            /\ handler' = Handler("workflow_delete", "ok", TRUE, FALSE, FALSE)
            /\ UNCHANGED <<files, now>>

workflow_activate ==
    /\ HandlerFrame
    /\ IF remote = Missing
       THEN Rejected("workflow_activate", "activateWorkflow", FALSE, FALSE)
       ELSE /\ remote' = [remote EXCEPT !.active = TRUE]
            /\ log' = <<LogEntry("activateWorkflow", FALSE)>>
            /\ handler' = Handler("workflow_activate", "ok", TRUE, FALSE, FALSE)
            /\ UNCHANGED <<files, now>>

workflow_deactivate ==
    /\ HandlerFrame
    /\ IF remote = Missing
       THEN Rejected("workflow_deactivate", "deactivateWorkflow", FALSE, FALSE)
       ELSE /\ remote' = [remote EXCEPT !.active = FALSE]
            /\ log' = <<LogEntry("deactivateWorkflow", FALSE)>>
            /\ handler' = Handler("workflow_deactivate", "ok", TRUE, FALSE, FALSE)
            /\ UNCHANGED <<files, now>>

workflow_autofix ==
    \E apply \in BOOLEAN, throws \in BOOLEAN :
        /\ HandlerFrame
        /\ IF remote = Missing
           THEN /\ ~throws
                /\ Rejected("workflow_autofix", "getWorkflow", apply, FALSE)
           ELSE \E result \in {autofixWorkflow(remote, validation) :
                               validation \in {validateWorkflow(remote)}} :
                IF apply /\ Len(result.fixes) > 0
                THEN \E saved \in {SaveStep(remote, "before_autofix", throws)} :
                     /\ throws => config.enabled
                     /\ files' = saved.files
                     /\ now' = now + 1
                     /\ IF throws
                        THEN /\ remote' = remote
                             /\ log' = <<LogEntry("getWorkflow", FALSE)>> \o saved.log
                             /\ handler' = Handler("workflow_autofix", "error", TRUE,
                                                   apply, FALSE)
                        ELSE /\ remote' = updateWorkflow(remote, result.workflow)
                             /\ log' = <<LogEntry("getWorkflow", FALSE)>> \o saved.log
                                       \o <<LogEntry("updateWorkflow", FALSE)>>
                             /\ handler' = Handler("workflow_autofix", "ok", TRUE,
                                                   apply, FALSE)
                ELSE /\ ~throws
                     /\ log' = <<LogEntry("getWorkflow", FALSE)>>
                     /\ handler' = Handler("workflow_autofix", "ok", TRUE, apply, FALSE)
                     /\ UNCHANGED <<remote, files, now>>

workflow_format ==
    \E apply \in BOOLEAN, throws \in BOOLEAN :
        /\ HandlerFrame
        /\ throws => config.enabled /\ apply
        /\ IF remote = Missing
           THEN Rejected("workflow_format", "getWorkflow", apply, FALSE)
           ELSE IF apply
           THEN \E saved \in {SaveStep(remote, "before_format", throws)} :
                /\ files' = saved.files
                /\ now' = now + 1
                /\ IF throws
                   THEN /\ remote' = remote
                        /\ log' = <<LogEntry("getWorkflow", FALSE)>> \o saved.log
                        /\ handler' = Handler("workflow_format", "error", TRUE,
                                              apply, FALSE)
                   ELSE /\ remote' = updateWorkflow(remote,
                                                    formatWorkflow(remote).workflow)
                        /\ log' = <<LogEntry("getWorkflow", FALSE)>> \o saved.log
                                  \o <<LogEntry("updateWorkflow", FALSE)>>
                        /\ handler' = Handler("workflow_format", "ok", TRUE,
                                              apply, FALSE)
           ELSE /\ log' = <<LogEntry("getWorkflow", FALSE)>>
                /\ handler' = Handler("workflow_format", "ok", TRUE, apply, FALSE)
                /\ UNCHANGED <<remote, files, now>>

version_save ==
    \E throws \in BOOLEAN :
        /\ HandlerFrame
        /\ throws => config.enabled
        /\ IF remote = Missing
           THEN Rejected("version_save", "getWorkflow", FALSE, FALSE)
           ELSE \E saved \in {SaveStep(remote, "manual", throws)} :
                /\ files' = saved.files
                /\ now' = now + 1
                /\ remote' = remote
                /\ log' = <<LogEntry("getWorkflow", FALSE)>> \o saved.log
                /\ handler' = Handler("version_save",
                                      IF throws THEN "error" ELSE "ok",
                                      TRUE, FALSE, FALSE)

\* a version id that names no file
NoSuchVersion == <<0, <<0, 0>>>>

\* the record of a handler that takes version ids: the ids it was called with
\* and, for version_diff, the diff it returned (<<>> if none)
VersionHandler(name, outcome, existed, versionIds, diff) ==
    [name |-> name, outcome |-> outcome, existed |-> existed, apply |-> FALSE,
     unknownType |-> FALSE, versionIds |-> versionIds, diff |-> diff]

\* the version ids a request names: those of the snapshots of workflow "1",
\* and one that names no file
VersionArgs == {f.file : f \in FilesOf(files, "1")} \cup {NoSuchVersion}

version_get ==
    \E versionId \in VersionArgs :
        \E version \in {getVersion(files, "1", versionId)} :
            /\ HandlerFrame
            /\ log' = <<LogEntry("getVersion", FALSE)>>
            \* if (!version) throw new Error(`Version ${args.versionId} not found`)
            /\ handler' = VersionHandler("version_get",
                                         IF version = <<>> THEN "error" ELSE "ok",
                                         remote # Missing, <<versionId>>, <<>>)
            /\ UNCHANGED <<remote, files, now>>

version_rollback ==
    \E versionId \in VersionArgs, throws \in BOOLEAN :
        \E version \in {getVersion(files, "1", versionId)} :
            /\ HandlerFrame
            /\ throws => config.enabled /\ version # <<>> /\ remote # Missing
            /\ IF version = <<>>
               THEN \* throw new Error(`Version ${args.versionId} not found`)
                    /\ log' = <<LogEntry("getVersion", FALSE)>>
                    /\ handler' = VersionHandler("version_rollback", "error",
                                                 remote # Missing, <<versionId>>, <<>>)
                    /\ UNCHANGED <<remote, files, now>>
               ELSE IF remote = Missing
               THEN /\ log' = <<LogEntry("getVersion", FALSE),
                                LogEntry("getWorkflow", TRUE)>>
                    /\ handler' = VersionHandler("version_rollback", "error", FALSE,
                                                 <<versionId>>, <<>>)
                    /\ UNCHANGED <<remote, files, now>>
               ELSE \E saved \in {SaveStep(remote, "before_rollback", throws)} :
                    /\ files' = saved.files
                    /\ now' = now + 1
                    /\ IF throws
                       THEN /\ remote' = remote
                            /\ log' = <<LogEntry("getVersion", FALSE),
                                        LogEntry("getWorkflow", FALSE)>> \o saved.log
                            /\ handler' = VersionHandler("version_rollback", "error",
                                                         TRUE, <<versionId>>, <<>>)
                       ELSE /\ remote' = updateWorkflow(remote, version[1].workflow)
                            /\ log' = <<LogEntry("getVersion", FALSE),
                                        LogEntry("getWorkflow", FALSE)>> \o saved.log
                                      \o <<LogEntry("updateWorkflow", FALSE)>>
                            /\ handler' = VersionHandler("version_rollback", "ok",
                                                         TRUE, <<versionId>>, <<>>)

\* version_diff(toVersionId, fromVersionId?): without fromVersionId the
\* version is compared with the workflow of the remote store
version_diff ==
    \E toVersionId \in VersionArgs, from \in {<<>>} \cup {<<v>> : v \in VersionArgs} :
        \E toVersion \in {getVersion(files, "1", toVersionId)} :
        \E fromVersion \in {IF from = <<>> THEN <<>>
                             ELSE getVersion(files, "1", from[1])} :
            /\ HandlerFrame
            /\ UNCHANGED <<remote, files, now>>
            /\ IF toVersion = <<>>
               THEN /\ log' = <<LogEntry("getVersion", FALSE)>>
                    /\ handler' = VersionHandler("version_diff", "error",
                                      remote # Missing, <<toVersionId>> \o from, <<>>)
               ELSE IF from # <<>>
               THEN /\ log' = <<LogEntry("getVersion", FALSE),
                                LogEntry("getVersion", FALSE)>>
                    /\ handler' =
                          IF fromVersion = <<>>
                          THEN VersionHandler("version_diff", "error", remote # Missing,
                                              <<toVersionId>> \o from, <<>>)
                          ELSE VersionHandler("version_diff", "ok", remote # Missing,
                                   <<toVersionId>> \o from,
                                   <<diffWorkflows(fromVersion[1].workflow,
                                                   toVersion[1].workflow)>>)
               ELSE /\ log' = <<LogEntry("getVersion", FALSE),
                                LogEntry("getWorkflow", remote = Missing)>>
                    /\ handler' =
                          IF remote = Missing
                          THEN VersionHandler("version_diff", "error", FALSE,
                                              <<toVersionId>>, <<>>)
                          ELSE VersionHandler("version_diff", "ok", TRUE,
                                   <<toVersionId>>,
                                   <<diffWorkflows(remote, toVersion[1].workflow)>>)

InitHandlers ==
    /\ PipelineIdle
    /\ files = {}
    /\ now = 0
    /\ config \in {[enabled |-> e, maxVersions |-> MaxCeiling] : e \in BOOLEAN}
    /\ remote \in {Missing, WorkflowChain, WorkflowScenarioA}
    /\ history = <<>> /\ log = <<>> /\ handler = NoHandler

NextHandlers ==
    \/ workflow_create
    \/ workflow_update
    \/ workflow_delete
    \/ workflow_activate
    \/ workflow_deactivate
    \/ workflow_autofix
    \/ workflow_format
    \/ version_save
    \/ version_get
    \/ version_rollback
    \/ version_diff

SpecHandlers == InitHandlers /\ [][NextHandlers]_vars

-----------------------------------------------------------------------------
(* Properties of the tool handlers (specification SpecHandlers)            *)

\* the position of the first write to the remote store in the handler's log,
\* 0 if there is none
FirstWrite ==
    IF \E i \in 1..Len(log) : log[i].call \in RemoteWrites
    THEN Min({i \in 1..Len(log) : log[i].call \in RemoteWrites})
    ELSE 0

MutatingHandlers ==
    {"workflow_update", "workflow_autofix", "workflow_format", "version_rollback",
     "workflow_delete", "workflow_activate", "workflow_deactivate"}

\* C7 - Every mutation saves a version first: every tool handler that changes
\* an existing workflow in the remote store (update, autofix and format with
\* apply, rollback, delete, activate, deactivate) invokes save on the current
\* remote workflow before its first mutating remote call, and performs no
\* remote write if that save fails.
C7_SaveBeforeMutation ==
    (handler.name \in MutatingHandlers /\ handler.existed)
    => /\ FirstWrite # 0 =>
             \E i \in 1..(FirstWrite - 1) :
                 log[i].call = "saveVersion" /\ ~log[i].threw
       /\ (\E i \in 1..Len(log) : log[i].call = "saveVersion" /\ log[i].threw)
             => FirstWrite = 0

\* C8 - Invalid node types are blocked: a workflow_create request, or a
\* workflow_update request with an addNode operation, whose node type is not
\* a known type fails with an error and performs no write to the remote store.
C8_UnknownTypeBlocked ==
    (handler.name \in {"workflow_create", "workflow_update"} /\ handler.unknownType
        /\ (handler.name = "workflow_update" => handler.existed))
    => /\ handler.outcome = "error"
       /\ FirstWrite = 0


\* the handlers that look a version up by the id of the request
VersionLookups == {"version_get", "version_rollback", "version_diff"}

\* the version-taking handler that has just returned was called with an id that
\* names no snapshot of the store as it was when the call began
CalledWithMissingVersion ==
    /\ steps' = steps + 1
    /\ handler'.name \in VersionLookups
    /\ \E i \in 1..Len(handler'.versionIds) :
           ~(\E f \in files : f.dir = "1" /\ f.file = handler'.versionIds[i])

\* C22 - a missing version is a failure, not a default: version_get,
\* version_rollback and version_diff called with a version id that is not in
\* the store fail, and the call then saves no snapshot and writes nothing to the
\* remote store
C22_MissingVersionFails ==
    [][CalledWithMissingVersion =>
          /\ handler'.outcome = "error"
          /\ files' = files
          /\ remote' = remote
          /\ \A i \in 1..Len(log') :
                 log'[i].call \notin RemoteWrites \cup {"saveVersion"}]_vars

\* version_rollback was called with an id that names no snapshot while the
\* store held one and the remote store held the workflow
C22_Witness ==
    /\ handler.name = "version_rollback"
    /\ handler.versionIds = <<NoSuchVersion>>
    /\ handler.outcome = "error"
    /\ FilesOf(files, "1") # {}
    /\ remote # Missing

\* C23 - for a workflow_update request the remote store is written only at the
\* end of the pipeline: every write of the request comes after the patched
\* workflow has been validated, auto-fixed and formatted
C23_WriteAfterCleanup ==
    handler.name = "workflow_update" =>
        \A i \in 1..Len(log) :
            log[i].call \in RemoteWrites =>
                \A stage \in {"validateWorkflow", "autofixWorkflow", "formatWorkflow"} :
                    \E j \in 1..(i - 1) : log[j].call = stage

\* the handler that has just returned ran autoCleanup
CleanupRan ==
    /\ handler.name \in {"workflow_create", "workflow_update"}
    /\ handler.outcome = "ok"

\* autoCleanup wrote to the remote store: a write follows the formatter
CleanupWrote ==
    \E i \in 2..Len(log) :
        /\ log[i].call = "updateWorkflow"
        /\ log[i - 1].call = "formatWorkflow"

\* C24 - the cleanup step persists only on actual change: autoCleanup writes to
\* the remote store iff autofix applied at least one fix or the formatted
\* workflow differs from the workflow it was given; otherwise it writes nothing
\* and returns the workflow as it was given
C24_CleanupWritesOnChange ==
    CleanupRan =>
        \E autofix \in {autofixWorkflow(handler.given,
                                        validateWorkflow(handler.given))} :
        \E formatted \in {formatWorkflow(autofix.workflow).workflow} :
            /\ CleanupWrote <=>
                   (Len(autofix.fixes) > 0 \/ formatted # handler.given)
            /\ CleanupWrote =>
                   remote = updateWorkflow(handler.given, formatted)
            /\ ~CleanupWrote =>
                   /\ remote = handler.given
                   /\ handler.workflow = handler.given

\* autoCleanup has run, in the second request of a run, on a workflow that
\* needed no fix and no formatting
C24_Witness ==
    /\ CleanupRan
    /\ ~CleanupWrote
    /\ steps = 2
    /\ FilesOf(files, "1") # {}

\* the fields n8n accepts on PUT /workflows/:id
N8N_WORKFLOW_WRITABLE_FIELDS ==
    {"name", "nodes", "connections", "settings", "staticData"}

\* the request applied an activate or deactivate operation
FlagOperation ==
    /\ handler.name = "workflow_update"
    /\ handler.outcome = "ok"
    /\ \E i \in 1..Len(handler.operations) :
           handler.operations[i].type \in {"activate", "deactivate"}

-----------------------------------------------------------------------------
(* Specification of name normalization: toSnakeCase is called on a name,   *)
(* and again on what it returned                                           *)

\* the longest name tried
MaxNameLen == 3

\* a capital, a small letter, and the three separators the function mentions
NameAlphabet == {"A", "b", "_", "-", " "}
NameInputs == UNION {[1..n -> NameAlphabet] : n \in 0..MaxNameLen}

InitNames ==
    /\ res \in NameInputs
    /\ arg = res /\ argAfter = res
    /\ call = NoCall
    /\ patchWarnings = <<>> /\ fixes = <<>> /\ unfixable = <<>>
    /\ steps = 0
    /\ StoreIdle

\* toSnakeCase(res)
CallToSnakeCase ==
    /\ steps < MaxWork
    /\ arg' = res /\ argAfter' = res
    /\ res' = toSnakeCase(res)
    /\ call' = [fn |-> "toSnakeCase", ops |-> <<>>, warnings |-> <<>>]
    /\ steps' = steps + 1
    /\ UNCHANGED <<patchWarnings, fixes, unfixable>>
    /\ UNCHANGED storeVars

NextNames == CallToSnakeCase

SpecNames == InitNames /\ [][NextNames]_vars

\* C11 - Name normalization is idempotent: toSnakeCase(toSnakeCase(s)) =
\* toSnakeCase(s) for every string s, including strings that begin with or
\* contain runs of underscores, hyphens, spaces and capitals.
C11_Idempotent ==
    call.fn = "toSnakeCase" => toSnakeCase(res) = res

-----------------------------------------------------------------------------
(* Specification of the cycle check: checkCircularReferences is called on  *)
(* a workflow whose nodes reference one another in their expressions.      *)

MaxRefs == 2

\* the references of one node: up to MaxRefs names, no name twice
RefLists ==
    {l \in UNION {[1..n -> NamePool] : n \in 0..MaxRefs} :
        \A i, j \in 1..Len(l) : l[i] = l[j] => i = j}

\* { value: "={{ $('x').item.json.x $('y').item.json.x }}" }
RefParams(l) ==
    IF l = <<>> THEN NoParams
    ELSE [value |-> StrVal(<<"=", "{{">>
                           \o Concat([i \in 1..Len(l) |->
                                         RefTo(l[i]) \o <<".item.json.", "x">>])
                           \o <<"}}">>)]

\* the nodes A, a and A, a, b; with two nodes a reference to b names no node
CycleNodeLists == {<<NodeUpper, NodeLower>>, <<NodeUpper, NodeLower, NodeB>>}

CycleWorkflows ==
    UNION {{[id |-> "1", name |-> <<"w","f">>, active |-> FALSE,
             nodes |-> [i \in 1..Len(ns) |->
                           MkNode("n", ns[i], "n8n-nodes-base.set", RefParams(f[i]))],
             connections |-> <<>>, settings |-> Settings0] :
               f \in [1..Len(ns) -> RefLists]} : ns \in CycleNodeLists}

InitCycles ==
    /\ res \in CycleWorkflows
    /\ arg = res /\ argAfter = res
    /\ call = NoCall
    /\ patchWarnings = <<>> /\ fixes = <<>> /\ unfixable = <<>>
    /\ steps = 0
    /\ StoreIdle

\* checkCircularReferences(res)
CallCheckCircularReferences ==
    /\ call = NoCall
    /\ \E r \in {checkCircularReferences(res)} :
          /\ arg' = res /\ argAfter' = res
          /\ res' = r
          /\ call' = [fn |-> "checkCircularReferences", ops |-> <<>>, warnings |-> <<>>]
          /\ steps' = steps + 1
          /\ UNCHANGED <<patchWarnings, fixes, unfixable>>
          /\ UNCHANGED storeVars

NextCycles == CallCheckCircularReferences

SpecCycles == InitCycles /\ [][NextCycles]_vars

\* C17 - no two cycles returned by checkCircularReferences have identical
\* node-name sets: a cycle the traversal discovers from several starting
\* nodes (A references B and B references A) is reported exactly once.
C17_CyclesDistinct ==
    call.fn = "checkCircularReferences" =>
        \A i, j \in 1..Len(res) :
            SeqToSet(res[i]) = SeqToSet(res[j]) => i = j

\* x references y: an expression of a node named x holds $('y')
References(w, x, y) ==
    \E i \in 1..Len(w.nodes) :
        /\ w.nodes[i].name = x
        /\ \E k \in DOMAIN w.nodes[i].parameters :
              LET exprs == ExpressionsOfValue(w.nodes[i].parameters[k])
              IN \E e \in 1..Len(exprs) : y \in SeqToSet(ReferencedNames(exprs[e]))

\* p starts and ends with the same node, and each node references the next
IsCycle(w, p) ==
    /\ Len(p) >= 2
    /\ p[1] = p[Len(p)]
    /\ \A i \in 1..(Len(p) - 1) : References(w, p[i], p[i + 1])

\* the reference graph of w has a directed cycle (one through k nodes is a
\* sequence of k + 1 names)
HasCycle(w) ==
    \E n \in 2..(Len(w.nodes) + 1) : \E p \in [1..n -> NodeNames(w)] : IsCycle(w, p)

\* C18 - cycle detection is sound and complete: checkCircularReferences
\* returns a non-empty list iff the explicit-reference graph contains a
\* directed cycle, self-references included, and every reported cycle starts
\* and ends with the same node and each of its nodes references the next one.
C18_SoundComplete ==
    call.fn = "checkCircularReferences" =>
        /\ res # <<>> <=> HasCycle(arg)
        /\ \A i \in 1..Len(res) : IsCycle(arg, res[i])

\* a self-reference and a cycle through three nodes were both reported
C18_Witness ==
    /\ call.fn = "checkCircularReferences"
    /\ HasCycle(arg)
    /\ \E i \in 1..Len(res) : Len(res[i]) = 2
    /\ \E i \in 1..Len(res) : Len(res[i]) = 4

\* the names some node references
ReferencedBy(references) ==
    UNION {SeqToSet(references[i].refs) : i \in 1..Len(references)}

\* the paths the traversals of checkCircularReferences(w) follow, one
\* traversal for each key of the reference map
TraversalPaths(w) ==
    LET Paths(references) ==
            UNION {findCyclePaths(references, references[i].key, <<>>) :
                      i \in 1..Len(references)}
    IN Paths(getReferencedNodes(w))

\* C30 - checkCircularReferences terminates for every workflow, reference
\* graphs with cycles and self-references included: the depth-first traversal
\* never follows a path longer than the number of distinct referenced names
\* plus one before it stops, at a repeat or at a node without references
C30_TraversalBounded ==
    call.fn = "checkCircularReferences" =>
        \A p \in TraversalPaths(arg) :
            /\ p.stop # "cut"
            /\ Len(p.path) <= Cardinality(ReferencedBy(getReferencedNodes(arg))) + 1
            /\ \A i, j \in 1..Len(p.path) : p.path[i] = p.path[j] => i = j

\* a node that nobody references leads into a cycle through every referenced
\* name, and the traversal stopped at the repeat after the longest path the
\* bound allows; a self-reference is in the graph as well
C30_Witness ==
    /\ call.fn = "checkCircularReferences"
    /\ \E n \in NodeNames(arg) : References(arg, n, n)
    /\ \E p \in TraversalPaths(arg) :
           /\ p.stop = "repeat"
           /\ p.path[1] \notin ReferencedBy(getReferencedNodes(arg))
           /\ Len(p.path) = Cardinality(ReferencedBy(getReferencedNodes(arg))) + 1
           /\ Len(p.path) = 3

-----------------------------------------------------------------------------
(* Specification of concurrent saves: two handler invocations call          *)
(* saveVersion for the same workflow id.  A call runs up to its next await  *)
(* in one step; between two steps of one call the other call may run.  In    *)
(* this specification the variable call holds, for each caller, the call in *)
(* flight: its position and its local variables.                            *)

Callers == {1, 2}

\* the workflows the two callers save, both under id 1
SaveWorkflows == {WorkflowChain, WorkflowValueAa}

\* a call of saveVersion(workflow) that has not begun
SaveCall(workflow) ==
    [fn |-> "saveVersion", pc |-> "begin", workflow |-> workflow, timestamp |-> 0,
     hash |-> <<0, 0>>, toDelete |-> <<>>, result |-> <<>>]

\* the store is empty, or holds one snapshot of an earlier save
InitSaves ==
    /\ arg = NoObject /\ argAfter = NoObject /\ res = NoObject
    /\ patchWarnings = <<>> /\ fixes = <<>> /\ unfixable = <<>>
    /\ steps = 0
    /\ config \in {[enabled |-> TRUE, maxVersions |-> k] : k \in 1..MaxCeiling}
    /\ \E earlier \in BOOLEAN :
          IF earlier
          THEN /\ files = saveVersion({}, config, WorkflowValueBB, "manual", 1).files
               /\ now = 1
          ELSE /\ files = {} /\ now = 0
    /\ call \in [Callers -> {SaveCall(w) : w \in SaveWorkflows}]
    /\ remote = Missing
    /\ history = <<>> /\ log = <<>> /\ handler = NoHandler

\* what a step of a save leaves alone
SaveFrame ==
    /\ UNCHANGED <<arg, argAfter, res, patchWarnings, fixes, unfixable, steps>>
    /\ UNCHANGED <<config, remote, history, log, handler>>

\* the meta of the snapshot a call writes
MetaOf(c) ==
    [id |-> <<c.timestamp, HashPrefix(c.hash)>>,
     workflowId |-> c.workflow.id,
     workflowName |-> c.workflow.name,
     timestamp |-> c.timestamp,
     reason |-> "before_update",
     nodeCount |-> Len(c.workflow.nodes),
     hash |-> c.hash]

\* saveVersion up to `await listVersions`: mkdir, the clock is read, the hash
\* is computed
BeginSave(p) ==
    /\ call[p].pc = "begin"
    /\ now' = now + 1
    /\ call' = [call EXCEPT ![p] =
                   IF ~config.enabled THEN [@ EXCEPT !.pc = "done"]
                   ELSE [@ EXCEPT !.pc = "list", !.timestamp = now + 1,
                                  !.hash = hashWorkflow(call[p].workflow)]]
    /\ UNCHANGED files
    /\ SaveFrame

\* listVersions answers; the call returns null on a duplicate of the newest
\* snapshot, and otherwise goes on to writeFile
ListExisting(p) ==
    /\ call[p].pc = "list"
    /\ \E existing \in {listVersions(files, call[p].workflow.id)} :
          call' = [call EXCEPT ![p].pc =
                     IF existing # <<>> /\ existing[1].hash = call[p].hash
                     THEN "done" ELSE "write"]
    /\ UNCHANGED <<files, now>>
    /\ SaveFrame

\* fs.writeFile(versionFile, ...)
WriteSnapshot(p) ==
    /\ call[p].pc = "write"
    /\ files' = writeFile(files, call[p].workflow.id,
                          <<call[p].timestamp, HashPrefix(call[p].hash)>>,
                          [meta |-> MetaOf(call[p]), workflow |-> call[p].workflow])
    /\ call' = [call EXCEPT ![p].pc = "prune"]
    /\ UNCHANGED now
    /\ SaveFrame

\* pruneVersions up to its first unlink: listVersions answers, and
\* versions.slice(config.maxVersions) is to be deleted
ListForPrune(p) ==
    /\ call[p].pc = "prune"
    /\ \E versions \in {listVersions(files, call[p].workflow.id)} :
          call' = [call EXCEPT ![p] =
                     IF Len(versions) <= config.maxVersions
                     THEN [@ EXCEPT !.pc = "done", !.result = <<MetaOf(call[p])>>]
                     ELSE [@ EXCEPT !.pc = "unlink",
                                    !.toDelete =
                                        [i \in 1..(Len(versions) - config.maxVersions)
                                            |-> versions[config.maxVersions + i].id]]]
    /\ UNCHANGED <<files, now>>
    /\ SaveFrame

\* fs.unlink(versionFile) of the next version to delete: the call is rejected
\* with ENOENT when the file is not there
Unlink(p) ==
    /\ call[p].pc = "unlink"
    /\ IF \E f \in files : f.dir = call[p].workflow.id /\ f.file = call[p].toDelete[1]
       THEN /\ files' = {f \in files : ~(/\ f.dir = call[p].workflow.id
                                          /\ f.file = call[p].toDelete[1])}
            /\ call' = [call EXCEPT ![p] =
                           IF Len(call[p].toDelete) = 1
                           THEN [@ EXCEPT !.pc = "done", !.toDelete = <<>>,
                                          !.result = <<MetaOf(call[p])>>]
                           ELSE [@ EXCEPT !.toDelete = Tail(@)]]
       ELSE /\ files' = files
            /\ call' = [call EXCEPT ![p].pc = "failed"]
    /\ UNCHANGED now
    /\ SaveFrame

NextSaves ==
    \E p \in Callers :
        \/ BeginSave(p)
        \/ ListExisting(p)
        \/ WriteSnapshot(p)
        \/ ListForPrune(p)
        \/ Unlink(p)

SpecSaves == InitSaves /\ [][NextSaves]_vars

\* the call has listed the store and has not returned yet
Saving(p) == call[p].pc \in {"write", "prune", "unlink"}

\* both calls have returned or failed
SavesOver == \A p \in Callers : call[p].pc \in {"done", "failed"}

\* two snapshots of the directory, one right after the other in time, have the
\* same hash
DuplicateKept ==
    \E f, g \in FilesOf(files, "1") :
        /\ f.meta.timestamp < g.meta.timestamp
        /\ f.meta.hash = g.meta.hash
        /\ ~(\E h \in FilesOf(files, "1") :
                 /\ f.meta.timestamp < h.meta.timestamp
                 /\ h.meta.timestamp < g.meta.timestamp)

\* C25 - the saves of two handler invocations for one workflow id are
\* serialized: their list, write and prune steps never interleave, so that no
\* save fails because the other deleted a file, and after both the directory
\* holds no duplicate of a snapshot and no more than maxVersions snapshots
C25_SavesSerialized ==
    /\ ~(Saving(1) /\ Saving(2))
    /\ \A p \in Callers : call[p].pc # "failed"
    /\ SavesOver => ~DuplicateKept
    /\ SavesOver => Cardinality(FilesOf(files, "1")) <= config.maxVersions

-----------------------------------------------------------------------------
(* Specification of concurrent patches: two callers call patchWorkflow on   *)
(* the same workflow id.  A call runs up to its next await in one step: the *)
(* GET is answered, then the operations are applied to what it answered and *)
(* the PUT is served.  The variable call holds the calls in flight, and arg  *)
(* the workflow the remote store held at first.                             *)

\* the operation lists of the two calls
PatchArgs ==
    {<<[type |-> "updateName", name |-> <<"w","2">>]>>,
     <<OpRemoveNode(NodeB)>>,
     <<OpUpdateNode(NodeUpper, [parameters |-> ParamsNew])>>,
     <<[type |-> "updateSettings", settings |-> [executionOrder |-> "v1"]]>>}

\* a call of patchWorkflow("1", operations) that has not begun
PatchCall(operations) ==
    [fn |-> "patchWorkflow", pc |-> "begin", operations |-> operations,
     current |-> NoObject, warnings |-> <<>>]

InitPatches ==
    /\ remote \in {WorkflowChain, WorkflowScenarioA}
    /\ arg = remote /\ argAfter = NoObject /\ res = NoObject
    /\ call \in [Callers -> {PatchCall(ops) : ops \in PatchArgs}]
    /\ patchWarnings = <<>> /\ fixes = <<>> /\ unfixable = <<>>
    /\ steps = 0
    /\ files = {} /\ now = 0 /\ config = DEFAULT_CONFIG
    /\ history = <<>> /\ log = <<>> /\ handler = NoHandler

\* what a step of a patch leaves alone
PatchFrame ==
    /\ UNCHANGED <<arg, argAfter, res, patchWarnings, fixes, unfixable, steps>>
    /\ UNCHANGED <<files, now, config, history, log, handler>>

\* const current = await this.getWorkflow(id)
FetchWorkflow(p) ==
    /\ call[p].pc = "begin"
    /\ call' = [call EXCEPT ![p].pc = "fetched", ![p].current = remote]
    /\ UNCHANGED remote
    /\ PatchFrame

\* applyOperations(current, operations, warnings), and the PUT of
\* updateWorkflow(id, updated) is served
WriteWorkflow(p) ==
    /\ call[p].pc = "fetched"
    /\ \E updated \in {applyOperations(call[p].current, call[p].operations,
                                        FreshIds)} :
          /\ remote' = updateWorkflow(remote, updated.workflow)
          /\ call' = [call EXCEPT ![p].pc = "done",
                                  ![p].warnings = updated.warnings]
    /\ PatchFrame

NextPatches ==
    \E p \in Callers :
        \/ FetchWorkflow(p)
        \/ WriteWorkflow(p)

SpecPatches == InitPatches /\ [][NextPatches]_vars

\* both calls have returned
PatchesOver == \A p \in Callers : call[p].pc = "done"

\* the remote workflow after the call of p and then the call of q, one after
\* the other, on the workflow the store held at first
InTurn(p, q) ==
    patchWorkflow(patchWorkflow(arg, call[p].operations, FreshIds).remote,
                  call[q].operations, FreshIds).remote

\* C28 - the fetch-apply-write of patchWorkflow is not lost under
\* interleaving: after two concurrent calls on one workflow id the remote
\* workflow reflects the operations of both, as if one call had run after the
\* other
C28_NoLostUpdate ==
    PatchesOver => remote \in {InTurn(1, 2), InTurn(2, 1)}

====
